---------------------------- MODULE Spec2Model ----------------------------
(***************************************************************************)
(* prdiff: the background watcher (src/src/watcher.rs), the message        *)
(* channel, and the foreground application state (src/src/app.rs,          *)
(* src/src/ui.rs, src/src/tree.rs).                                        *)
(*                                                                         *)
(* Paths are sequences of their '/'-separated segments; the empty sequence *)
(* is the empty string.  Modification times are naturals, 0 standing for   *)
(* "no mtime" (file_mtime_ns returned None).                               *)
(***************************************************************************)
EXTENDS Integers, Sequences, FiniteSets, TLC

(* ------------------------------ bounds -------------------------------- *)
\* number of mutations the outside world applies to the repository
MaxEnv == 2
\* number of version-control invocations that may fail
MaxFail == 2
\* number of updates the watcher sends to the application
MaxMsgs == 2
\* number of key presses
MaxEvents == 3
\* number of paths an update names in invalidate_paths
MaxInvPaths == 1

(* --------------------------- data universe ---------------------------- *)
FileEntry(p, s, a, d) == [path |-> p, status |-> s, additions |-> a, deletions |-> d]

PathC == <<"a", "b", "c.rs">>
PathD == <<"a", "b", "d.rs">>
PathE == <<"a", "e.rs">>

\* change lists the repository can be in (what get_changed_files would return)
ChangeSets ==
    { <<>>,
      << FileEntry(PathC, "Modified", 3, 1) >>,
      << FileEntry(PathC, "Modified", 3, 1), FileEntry(PathD, "Added", 10, 0) >>,
      << FileEntry(PathC, "Modified", 3, 1), FileEntry(PathE, "Added", 1, 0) >> }

InitialChangeSet == << FileEntry(PathC, "Modified", 3, 1), FileEntry(PathD, "Added", 10, 0) >>

Paths == {PathC, PathD, PathE}

PathsOf(fs) == { fs[i].path : i \in 1..Len(fs) }

Oids == {"o1", "o2"}
MergeBases == {"mb1", "mb2"}
Hashes == {1, 2}

CtlFiles == {"index", "HEAD", "refs_heads", "refs_remotes", "packed_refs"}
RefFiles == {"HEAD", "refs_heads", "refs_remotes", "packed_refs"}


(* ------------------------------ tree.rs -------------------------------- *)
\* the bytes that occur in names, in ascending order ('.' < '/' < letters)
ByteOrder == <<".", "/", "a", "b", "c", "d", "e", "f", "g", "h", "r", "s">>
ByteRank(x) == CHOOSE i \in 1..Len(ByteOrder) : ByteOrder[i] = x

\* the bytes of a path segment
SegBytes(seg) ==
    CASE seg = "a" -> <<"a">>
      [] seg = "b" -> <<"b">>
      [] seg = "a.b" -> <<"a", ".", "b">>
      [] seg = "c.rs" -> <<"c", ".", "r", "s">>
      [] seg = "d.rs" -> <<"d", ".", "r", "s">>
      [] seg = "e.rs" -> <<"e", ".", "r", "s">>
      [] seg = "f.rs" -> <<"f", ".", "r", "s">>
      [] seg = "g.rs" -> <<"g", ".", "r", "s">>
      [] seg = "h.rs" -> <<"h", ".", "r", "s">>

\* the bytes of a name: its segments joined with '/'
RECURSIVE NameBytes(_)
NameBytes(name) ==
    IF name = <<>> THEN <<>>
    ELSE IF Len(name) = 1 THEN SegBytes(name[1])
    ELSE SegBytes(name[1]) \o <<"/">> \o NameBytes(Tail(name))

RECURSIVE BytesLess(_, _)
BytesLess(x, y) ==
    IF y = <<>> THEN FALSE
    ELSE IF x = <<>> THEN TRUE
    ELSE IF x[1] # y[1] THEN ByteRank(x[1]) < ByteRank(y[1])
    ELSE BytesLess(Tail(x), Tail(y))

\* str::cmp on names
NameLess(x, y) == BytesLess(NameBytes(x), NameBytes(y))

Directory(n, ch) == [kind |-> "dir", name |-> n, children |-> ch]
File(f) == [kind |-> "file", file |-> f]
IsDir(n) == n.kind = "dir"

\* TreeNode::name
NodeName(n) == IF IsDir(n) THEN n.name ELSE <<n.file.path[Len(n.file.path)]>>

RECURSIVE insert_into_tree(_, _, _)
insert_into_tree(nodes, parts, file) ==
    IF Len(parts) = 1 THEN Append(nodes, File(file))
    ELSE LET dir_name == <<parts[1]>>
             found == {i \in 1..Len(nodes) : IsDir(nodes[i]) /\ nodes[i].name = dir_name}
         IN  IF found # {}
             THEN LET i == CHOOSE j \in found : \A k \in found : j <= k
                  IN  [nodes EXCEPT ![i].children = insert_into_tree(@, Tail(parts), file)]
             ELSE Append(nodes, Directory(dir_name, insert_into_tree(<<>>, Tail(parts), file)))

\* the comparator of sort_tree: directories first, then by name
NodeLess(a, b) ==
    IF IsDir(a) # IsDir(b) THEN IsDir(a) ELSE NameLess(NodeName(a), NodeName(b))

\* slice::sort_by is stable
RECURSIVE StableSort(_)
StableSort(nodes) ==
    IF nodes = <<>> THEN <<>>
    ELSE LET rest == StableSort(SubSeq(nodes, 1, Len(nodes) - 1))
             x == nodes[Len(nodes)]
             k == Cardinality({i \in 1..Len(rest) : ~NodeLess(x, rest[i])})
         IN  SubSeq(rest, 1, k) \o <<x>> \o SubSeq(rest, k + 1, Len(rest))

RECURSIVE sort_tree(_)
sort_tree(nodes) ==
    LET sorted == StableSort(nodes)
    IN  [i \in 1..Len(sorted) |->
            IF IsDir(sorted[i])
            THEN [sorted[i] EXCEPT !.children = sort_tree(@)]
            ELSE sorted[i]]

\* variant: a directory is merged with its only child whatever that child holds
RECURSIVE MergeChain_anyOnlyChild(_)
MergeChain_anyOnlyChild(node) ==
    IF Len(node.children) = 1 /\ IsDir(node.children[1])
    THEN MergeChain_anyOnlyChild(Directory(node.name \o node.children[1].name,
                                           node.children[1].children))
    ELSE node

\* variant: the child's name is put before the parent's
RECURSIVE MergeChain_childFirst(_)
MergeChain_childFirst(node) ==
    IF /\ Len(node.children) = 1
       /\ IsDir(node.children[1])
       /\ Len(node.children[1].children) = 1
    THEN MergeChain_childFirst(Directory(node.children[1].name \o node.name,
                                         node.children[1].children))
    ELSE node

\* the merge loop of compact_tree on one directory
RECURSIVE MergeChain(_)
MergeChain(node) ==
    IF /\ Len(node.children) = 1
       /\ IsDir(node.children[1])
       /\ Len(node.children[1].children) = 1
    THEN MergeChain(Directory(node.name \o node.children[1].name,
                              node.children[1].children))
    ELSE node

\* variant: the children are not compacted before their directory
compact_tree_topOnly(nodes) ==
    [i \in 1..Len(nodes) |-> IF IsDir(nodes[i]) THEN MergeChain(nodes[i]) ELSE nodes[i]]

\* compact_tree, lines 63-93
RECURSIVE compact_tree(_)
compact_tree(nodes) ==
    [i \in 1..Len(nodes) |->
        IF IsDir(nodes[i])
        THEN MergeChain([nodes[i] EXCEPT !.children = compact_tree(@)])
        ELSE nodes[i]]

RECURSIVE InsertAll(_, _)
InsertAll(root, fs) ==
    IF fs = <<>> THEN root
    ELSE InsertAll(insert_into_tree(root, Head(fs).path, Head(fs)), Tail(fs))

build_tree(fs) == compact_tree(sort_tree(InsertAll(<<>>, fs)))

NodePath(node, prefix) == IF IsDir(node) THEN prefix \o node.name ELSE node.file.path

RECURSIVE expand_all_dirs(_, _)
expand_all_dirs(nodes, prefix) ==
    UNION { IF IsDir(nodes[i])
            THEN {prefix \o nodes[i].name}
                 \cup expand_all_dirs(nodes[i].children, prefix \o nodes[i].name)
            ELSE {} : i \in 1..Len(nodes) }

\* variant: the children of a directory are left out
collect_visible_topOnly(nodes, prefix, depth, exp) ==
    [i \in 1..Len(nodes) |->
        [depth |-> depth, path |-> NodePath(nodes[i], prefix), node |-> nodes[i]]]

RECURSIVE collect_visible(_, _, _, _)
collect_visible(nodes, prefix, depth, exp) ==
    IF nodes = <<>> THEN <<>>
    ELSE LET node == Head(nodes)
             path == NodePath(node, prefix)
             below == IF IsDir(node) /\ path \in exp
                      THEN collect_visible(node.children, path, depth + 1, exp)
                      ELSE <<>>
         IN  <<[depth |-> depth, path |-> path, node |-> node]>> \o below
             \o collect_visible(Tail(nodes), prefix, depth, exp)

(* The change lists build_tree is followed on, step by step: up to MaxFiles  *)
(* entries with pairwise different paths.                                     *)
MaxFiles == 3

PathA == <<"a">>
PathF == <<"f.rs">>
PathG == <<"a.b", "g.rs">>
PathH == <<"b", "h.rs">>
PathI == <<"b", "a", "b", "c.rs">>
PathJ == <<"b", "a", "b", "d.rs">>
TreePaths == {PathC, PathD, PathE, PathA, PathF, PathG, PathH, PathI, PathJ}

TreeChangeSets ==
    ChangeSets \cup
    { fs \in UNION { [1..k -> { FileEntry(p, "Modified", 1, 0) : p \in TreePaths }] :
                     k \in 0..MaxFiles } :
        \A i, j \in DOMAIN fs : i # j => fs[i].path # fs[j].path }

NoBuild == [pc |-> "idle", files |-> <<>>, rest |-> <<>>, root |-> <<>>, visible |-> <<>>]

(* ------------------------------- git.rs -------------------------------- *)
(* The output of `git diff -z --raw --numstat` is a sequence of NUL-delimited *)
(* parts; a part, and a path, is a sequence of atoms (pieces of text).        *)
TAB == "TAB"
ARROW == " => "

\* the first character of an atom
FirstChar(atom) ==
    CASE atom = "R100" -> "R"
      [] atom = "C085" -> "C"
      [] atom = "10" -> "1"
      [] atom = ARROW -> " "
      [] atom = "a.rs" -> "a"
      [] atom = "b.rs" -> "b"
      [] atom = "c.rs" -> "c"
      [] OTHER -> atom

IsAsciiDigit(c) == c \in {"0", "1", "2", "3", "4", "5", "6", "7", "8", "9"}

\* str::parse::<i32>().unwrap_or(0) on one field
ParseCount(field) ==
    IF Len(field) # 1 THEN 0
    ELSE CASE field[1] = "1" -> 1
           [] field[1] = "2" -> 2
           [] field[1] = "3" -> 3
           [] field[1] = "4" -> 4
           [] field[1] = "5" -> 5
           [] field[1] = "10" -> 10
           [] OTHER -> 0

\* the index of the first / last occurrence of an atom, 0 when there is none
Find(str, atom) ==
    LET hits == {i \in 1..Len(str) : str[i] = atom}
    IN  IF hits = {} THEN 0 ELSE CHOOSE i \in hits : \A j \in hits : i <= j
RFind(str, atom) ==
    LET hits == {i \in 1..Len(str) : str[i] = atom}
    IN  IF hits = {} THEN 0 ELSE CHOOSE i \in hits : \A j \in hits : i >= j

\* str::split on one atom
RECURSIVE Split(_, _)
Split(str, sep) ==
    LET k == Find(str, sep)
    IN  IF k = 0 THEN <<str>>
        ELSE <<SubSeq(str, 1, k - 1)>> \o Split(SubSeq(str, k + 1, Len(str)), sep)

\* normalize_numstat_path, lines 288-307
normalize_numstat_path(field) ==
    LET open == Find(field, "{")
        close == RFind(field, "}")
        inner == SubSeq(field, open + 1, close - 1)
        k == Find(inner, ARROW)
        w == Find(field, ARROW)
    IN  IF open # 0 /\ close # 0 /\ open < close /\ k # 0
        THEN SubSeq(field, 1, open - 1) \o SubSeq(inner, k + 1, Len(inner))
             \o SubSeq(field, close + 1, Len(field))
        ELSE IF w # 0 THEN SubSeq(field, w + 1, Len(field))
        ELSE field

\* parts.get(i).unwrap_or(&""), i counted from 0
PartAt(parts, i) == IF i < Len(parts) THEN parts[i + 1] ELSE <<>>

\* HashMap::insert / HashMap::get on maps keyed by path
MapPut(m, k, v) == [q \in DOMAIN m \cup {k} |-> IF q = k THEN v ELSE m[q]]

\* lines 344-365: the status letter of a raw record
StatusOfLetter(c) ==
    CASE c = "A" -> "Added"
      [] c \in {"M", "T"} -> "Modified"
      [] c = "D" -> "Deleted"
      [] c = "R" -> "Renamed"
      [] c = "C" -> "Added"
      [] OTHER -> "Unknown"

\* lines 335-400: the scan over the parts, from part i on
RECURSIVE ScanParts(_, _, _)
ScanParts(parts, i, acc) ==
    IF i >= Len(parts) THEN acc
    ELSE
    LET part == parts[i + 1] IN
    IF part # <<>> /\ FirstChar(part[1]) = ":"
    THEN LET status_char == FirstChar(part[Len(part)])
         IN  IF status_char \in {"R", "C"}
             THEN LET j == IF i + 1 < Len(parts) THEN i + 2 ELSE i + 1
                      path == PartAt(parts, j)
                  IN  ScanParts(parts, j + 1,
                          [acc EXCEPT
                              !.paths_ordered =
                                  IF path # <<>> /\ path \notin DOMAIN acc.status_map
                                  THEN Append(@, path) ELSE @,
                              !.status_map = MapPut(@, path, StatusOfLetter(status_char))])
             ELSE LET path == PartAt(parts, i + 1)
                  IN  ScanParts(parts, i + 2,
                          IF path = <<>> THEN acc
                          ELSE [acc EXCEPT
                                   !.paths_ordered =
                                       IF path \notin DOMAIN acc.status_map
                                       THEN Append(@, path) ELSE @,
                                   !.status_map = MapPut(@, path, StatusOfLetter(status_char))])
    ELSE IF part # <<>> /\ (IsAsciiDigit(FirstChar(part[1])) \/ FirstChar(part[1]) = "-")
    THEN LET fields == Split(part, TAB)
         IN  IF Len(fields) >= 3
             THEN LET add == ParseCount(fields[1])
                      del == ParseCount(fields[2])
                      raw_path == fields[3]
                  IN  IF raw_path = <<>>
                      THEN LET path == PartAt(parts, i + 2)
                           IN  ScanParts(parts, i + 3,
                                   IF path = <<>> THEN acc
                                   ELSE [acc EXCEPT !.stats_map = MapPut(@, path, <<add, del>>)])
                      ELSE ScanParts(parts, i + 1,
                               [acc EXCEPT !.stats_map =
                                    MapPut(@, normalize_numstat_path(raw_path), <<add, del>>)])
             ELSE ScanParts(parts, i + 1, acc)
    ELSE ScanParts(parts, i + 1, acc)

\* git_diff_status_and_stats, lines 328-413: the entries of one diff output
ParseDiffOutput(parts) ==
    LET acc == ScanParts(parts, 0, [status_map |-> <<>>, stats_map |-> <<>>,
                                    paths_ordered |-> <<>>])
    IN  [k \in 1..Len(acc.paths_ordered) |->
            LET path == acc.paths_ordered[k]
                status == IF path \in DOMAIN acc.status_map
                          THEN acc.status_map[path] ELSE "Unknown"
                stats == IF path \in DOMAIN acc.stats_map
                         THEN acc.stats_map[path] ELSE <<0, 0>>
            IN  FileEntry(path, status, stats[1], stats[2])]

\* is_binary, lines 45-48: a NUL byte among the first 8192 bytes; a file's
\* bytes are given as runs <<byte, length>>
RECURSIVE is_binary(_, _)
is_binary(runs, seen) ==
    IF runs = <<>> \/ seen >= 8192 THEN FALSE
    ELSE IF runs[1][1] = "NUL" /\ runs[1][2] > 0 THEN TRUE
    ELSE is_binary(Tail(runs), seen + runs[1][2])

RECURSIVE CountByte(_, _)
CountByte(runs, b) ==
    IF runs = <<>> THEN 0
    ELSE (IF runs[1][1] = b THEN runs[1][2] ELSE 0) + CountByte(Tail(runs), b)

RECURSIVE ByteLen(_)
ByteLen(runs) == IF runs = <<>> THEN 0 ELSE runs[1][2] + ByteLen(Tail(runs))

\* variant: a last line without newline is not counted
line_count_newlinesOnly(read) ==
    IF ~read.ok THEN 0
    ELSE IF ByteLen(read.bytes) = 0 \/ is_binary(read.bytes, 0) THEN 0
    ELSE CountByte(read.bytes, "LF")

\* lines 94-107: the line count of an untracked file; read is the outcome of fs::read
line_count(read) ==
    IF ~read.ok THEN 0
    ELSE IF ByteLen(read.bytes) = 0 \/ is_binary(read.bytes, 0) THEN 0
    ELSE LET newlines == CountByte(read.bytes, "LF")
             has_trailing_newline == read.bytes[Len(read.bytes)][1] = "LF"
         IN  IF has_trailing_newline THEN newlines ELSE newlines + 1

RECURSIVE Flatten(_)
Flatten(seqs) == IF seqs = <<>> THEN <<>> ELSE seqs[1] \o Flatten(Tail(seqs))

(* Without -z git prints a rename in one path field (comment at lines        *)
(* 289-292): the common leading directories, then the differing middle parts  *)
(* in braces, then the common trailing part; or `old => new` when nothing is  *)
(* common.  A path here is its segments; a field is a sequence of atoms.      *)
SLASH == "/"

\* the segments joined with '/'
RECURSIVE JoinPath(_)
JoinPath(segs) ==
    IF segs = <<>> THEN <<>>
    ELSE IF Len(segs) = 1 THEN <<segs[1]>>
    ELSE <<segs[1], SLASH>> \o JoinPath(Tail(segs))

MinOf(a, b) == IF a <= b THEN a ELSE b

\* the number of leading segments two paths share (directories only)
CommonPrefix(old, new) ==
    LET ks == { k \in 0..(MinOf(Len(old), Len(new)) - 1) :
                  SubSeq(old, 1, k) = SubSeq(new, 1, k) }
    IN  CHOOSE k \in ks : \A m \in ks : m <= k

\* the number of trailing segments two paths share after p leading ones; the
\* '/' that ends the leading part may start the trailing part
CommonSuffix(old, new, p) ==
    LET top == MinOf(Len(old), Len(new)) - (IF p = 0 THEN 1 ELSE p)
        ks == { k \in 0..top :
                  SubSeq(old, Len(old) - k + 1, Len(old))
                      = SubSeq(new, Len(new) - k + 1, Len(new)) }
    IN  CHOOSE k \in ks : \A m \in ks : m <= k

\* the path field git prints for old -> new; the path itself when old = new
RenameField(old, new) ==
    IF old = new THEN JoinPath(new)
    ELSE
    LET p == CommonPrefix(old, new)
        s == CommonSuffix(old, new, p)
        pfx == Flatten([k \in 1..p |-> <<old[k], SLASH>>])
        sfx == Flatten([k \in 1..s |-> <<SLASH, old[Len(old) - s + k]>>])
        mid_a == JoinPath(SubSeq(old, p + 1, Len(old) - s))
        mid_b == JoinPath(SubSeq(new, p + 1, Len(new) - s))
    IN  IF p = 0 /\ s = 0 THEN JoinPath(old) \o <<ARROW>> \o JoinPath(new)
        ELSE pfx \o <<"{">> \o mid_a \o <<ARROW>> \o mid_b \o <<"}">> \o sfx

NumstatPaths ==
    { <<"old.txt">>, <<"new.txt">>,
      <<"src", "old", "file.rs">>, <<"src", "new", "file.rs">>,
      <<"src", "file.rs">>, <<"src", "old", "lib.rs">>,
      <<"lib", "file.rs">>, <<"src", "new", "x", "file.rs">>,
      <<"old", "file.rs">> }

NoRename == [pc |-> "idle", old |-> <<>>, new |-> <<>>, field |-> <<>>, out |-> <<>>]

(* What git can answer.  A diff answers with records; `git diff -z --raw     *)
(* --numstat` prints the raw records of all of them, then their numstat       *)
(* records (comment at lines 309-312, 376-379).                               *)
MaxRecords == 2
MaxIndexRecords == 1
MaxUntracked == 2

DiffRecord(letter, old, path, add, del, binary) ==
    [letter |-> letter, old |-> old, path |-> path, add |-> add, del |-> del,
     binary |-> binary]

WorkRecords ==
    { DiffRecord("A", <<>>, <<"a.rs">>, 5, 0, FALSE),
      DiffRecord("M", <<>>, <<"b.rs">>, 3, 1, FALSE),
      DiffRecord("M", <<>>, <<"b.rs">>, 0, 0, TRUE),
      DiffRecord("T", <<>>, <<"c.rs">>, 0, 0, FALSE),
      DiffRecord("D", <<>>, <<"b.rs">>, 0, 4, FALSE),
      DiffRecord("R", <<"old.rs">>, <<"a.rs">>, 2, 1, FALSE),
      DiffRecord("C", <<"b.rs">>, <<"c.rs">>, 1, 0, FALSE),
      DiffRecord("U", <<>>, <<"c.rs">>, 0, 0, FALSE),
      DiffRecord("M", <<>>, <<"x", ARROW, "a.rs">>, 3, 0, FALSE) }

IndexRecords ==
    { DiffRecord("M", <<>>, <<"a.rs">>, 1, 1, FALSE),
      DiffRecord("D", <<>>, <<"b.rs">>, 0, 10, FALSE),
      DiffRecord("A", <<>>, <<"c.rs">>, 2, 0, FALSE) }

\* the sequences of at most n records of S that name pairwise different paths
RecordSeqs(S, n) ==
    { rs \in UNION { [1..k -> S] : k \in 0..n } :
        \A i, j \in DOMAIN rs : i # j => rs[i].path # rs[j].path }

StatusToken(rec) ==
    CASE rec.letter = "R" -> "R100"
      [] rec.letter = "C" -> "C085"
      [] OTHER -> rec.letter

CountAtom(n, binary) ==
    IF binary THEN "-"
    ELSE CASE n = 0 -> "0" [] n = 1 -> "1" [] n = 2 -> "2" [] n = 3 -> "3"
           [] n = 4 -> "4" [] n = 5 -> "5" [] n = 10 -> "10"

\* `:modes hashes status NUL path NUL`, or `... NUL old NUL new NUL`
RawParts(rec) ==
    << <<":", StatusToken(rec)>> >>
    \o (IF rec.letter \in {"R", "C"} THEN <<rec.old, rec.path>> ELSE <<rec.path>>)

\* `add TAB del TAB path NUL`, or `add TAB del TAB NUL old NUL new NUL`
NumstatParts(rec) ==
    LET counts == <<CountAtom(rec.add, rec.binary), TAB, CountAtom(rec.del, rec.binary), TAB>>
    IN  IF rec.letter \in {"R", "C"} THEN <<counts, rec.old, rec.path>>
        ELSE <<counts \o rec.path>>

\* text.split('\0') of the output for these records, line 329: every record
\* ends with NUL, so the last part is empty
DiffOutput(recs) ==
    Flatten([k \in DOMAIN recs |-> RawParts(recs[k])])
    \o Flatten([k \in DOMAIN recs |-> NumstatParts(recs[k])])
    \o << <<>> >>

\* fs::read of an untracked file: the bytes as runs, with the number of lines
\* and whether a NUL byte is among the first 8 KB
FileRead(ok, bytes, lines, binary) ==
    [ok |-> ok, bytes |-> bytes, lines |-> lines, binary |-> binary]

FileReads ==
    << FileRead(FALSE, <<>>, 0, FALSE),
       FileRead(TRUE, <<>>, 0, FALSE),
       FileRead(TRUE, << <<"x", 3>>, <<"LF", 1>>, <<"x", 2>>, <<"LF", 1>> >>, 2, FALSE),
       FileRead(TRUE, << <<"x", 3>>, <<"LF", 1>>, <<"x", 2>> >>, 2, FALSE),
       FileRead(TRUE, << <<"x", 2>>, <<"NUL", 1>>, <<"LF", 1>>, <<"x", 1>> >>, 2, TRUE),
       FileRead(TRUE, << <<"x", 8192>>, <<"LF", 1>>, <<"NUL", 1>>, <<"LF", 2>> >>, 3, FALSE) >>

PathB == <<"b.rs">>
PathN == <<"n.txt">>
UntrackedPaths == {PathB, PathN}

\* the file systems: what reading each untracked path gives
FileSystems ==
    { [p \in UntrackedPaths |->
          IF p = PathB THEN FileReads[k] ELSE FileReads[(k % Len(FileReads)) + 1]] :
      k \in DOMAIN FileReads }

\* the listings of `git ls-files -z --others --exclude-standard`
Listings ==
    { l \in UNION { [1..k -> UntrackedPaths] : k \in 0..MaxUntracked } :
        \A i, j \in DOMAIN l : i # j => l[i] # l[j] }

\* a diff either fails (not started, or non-zero exit) or prints its records;
\* the listing is not started, or exits with zero or not after printing
GitOutputs ==
    [ work_ok : BOOLEAN, work : RecordSeqs(WorkRecords, MaxRecords),
      index_ok : BOOLEAN, index : RecordSeqs(IndexRecords, MaxIndexRecords),
      ls : {"ok", "nonzero", "nospawn"}, listed : Listings, fs : FileSystems ]

NoGitOut ==
    [ work_ok |-> TRUE, work |-> <<>>, index_ok |-> TRUE, index |-> <<>>,
      ls |-> "ok", listed |-> <<>>, fs |-> [p \in UntrackedPaths |-> FileReads[1]] ]

NoCall == [pc |-> "idle", work_files |-> <<>>, index_files |-> <<>>, files |-> <<>>,
           result |-> "none"]
NewCall == [NoCall EXCEPT !.pc = "work"]

\* lines 66-81: the working-tree entries, then the index entries not seen
RECURSIVE MergeIndex(_, _)
MergeIndex(files, index_files) ==
    IF index_files = <<>> THEN files
    ELSE MergeIndex(IF index_files[1].path \in PathsOf(files) THEN files
                    ELSE Append(files, index_files[1]),
                    Tail(index_files))

\* variant: a listed path is appended even when a diff reported it
RECURSIVE AppendUntracked_noSeenCheck(_, _, _, _)
AppendUntracked_noSeenCheck(files, seen_paths, listed, fs) ==
    IF listed = <<>> THEN files
    ELSE AppendUntracked_noSeenCheck(
             IF listed[1] = <<>> THEN files
             ELSE Append(files, FileEntry(listed[1], "Added", line_count(fs[listed[1]]), 0)),
             seen_paths, Tail(listed), fs)

\* lines 87-115: one entry per listed path that is not empty and not seen
RECURSIVE AppendUntracked(_, _, _, _)
AppendUntracked(files, seen_paths, listed, fs) ==
    IF listed = <<>> THEN files
    ELSE AppendUntracked(
             IF listed[1] = <<>> \/ listed[1] \in seen_paths THEN files
             ELSE Append(files, FileEntry(listed[1], "Added", line_count(fs[listed[1]]), 0)),
             seen_paths, Tail(listed), fs)

(* ------------------------- finding the base ---------------------------- *)
(* A ref name is its '/'-separated segments.  A repository is the remotes    *)
(* `git remote` lists (or its failure) and the names `git rev-parse          *)
(* --verify` accepts.                                                         *)
NoName == <<>>

RemoteSets == { {}, {"origin"}, {"upstream"}, {"origin", "upstream"}, {"upstream", "fork"} }

RefUniverse ==
    { <<"develop">>, <<"main">>, <<"master">>, <<"release", "1.0">>,
      <<"origin", "develop">>, <<"origin", "main">>, <<"origin", "release", "1.0">>,
      <<"upstream", "develop">> }

Repos == [remote_ok : BOOLEAN, remotes : RemoteSets, refs : SUBSET RefUniverse]

\* what --base can be: absent, or a name
GivenNames == { NoName, <<"develop">>, <<"main">>, <<"release", "1.0">>, <<"origin", "develop">> }

\* variant: main is tried before develop
Candidates_mainFirst == << <<"main">>, <<"develop">>, <<"master">> >>

\* detect_base_branch, line 23
Candidates == << <<"develop">>, <<"main">>, <<"master">> >>

\* git_default_remote, lines 222-239: <<>> stands for None
git_default_remote(repo) ==
    IF ~repo.remote_ok THEN <<>>
    ELSE IF "origin" \in repo.remotes THEN <<"origin">>
    ELSE IF Cardinality(repo.remotes) = 1 THEN <<CHOOSE r \in repo.remotes : TRUE>>
    ELSE <<>>

NoDetect == [pc |-> "idle", repo |-> [remote_ok |-> TRUE, remotes |-> {}, refs |-> {}],
             given |-> NoName, cur |-> NoName, todo |-> <<>>, remote |-> <<>>,
             result |-> [ok |-> FALSE, ref |-> NoName]]

(* ------------------------ watchers and channels ------------------------ *)
MaxSpawns == 3
MaxQueue == 2

SwitchBases == {"origin/main", "origin/develop"}

\* GitWatcher::spawn, watcher.rs lines 27-38: a new channel and a thread
\* that holds its sender and the base it was given
NewWatcher(base) == [base |-> base, queue |-> <<>>, rx |-> TRUE, running |-> TRUE]

\* variant: the new handle takes over the updates queued for the old one
respawn_watcher_keepQueue(ws, base) ==
    Append([i \in DOMAIN ws |-> IF i = Len(ws) THEN [ws[i] EXCEPT !.rx = FALSE, !.queue = <<>>]
                                ELSE ws[i]],
           [NewWatcher(base) EXCEPT !.queue = ws[Len(ws)].queue])

\* respawn_watcher, app.rs lines 336-342: self.watcher is replaced; the old
\* GitWatcher is dropped and its Receiver with it, the old thread runs on
respawn_watcher(ws, base) ==
    Append([i \in DOMAIN ws |-> IF i = Len(ws) THEN [ws[i] EXCEPT !.rx = FALSE, !.queue = <<>>]
                                ELSE ws[i]],
           NewWatcher(base))

NoApplied == [from |-> 0, base |-> "", handle |-> 0, app_base |-> ""]

NoSpawn == [base |-> "", ws |-> <<>>, applied |-> NoApplied, switched |-> FALSE]

(* --------------------- the commands the program runs ------------------- *)
MaxCmds == 2

\* git_cmd, lines 10-14
git_cmd_noEnv == [program |-> "git", env |-> {}, args |-> <<>>]
git_cmd == [program |-> "git", env |-> {<<"GIT_OPTIONAL_LOCKS", "0">>}, args |-> <<>>]

\* Command::args
WithArgs(cmd, args) == [cmd EXCEPT !.args = @ \o args]

\* ui.rs line 114: Command::new(&editor).arg(&path)
editor_cmd(path) == [program |-> "zed", env |-> {}, args |-> <<path>>]

\* the names the program passes to git
RevNames == {"HEAD", "origin/main"}
RefNames == {"origin/develop", "develop"}

VARIABLES
    \* the repository, as the outside world leaves it
    mt, fmt, headOid, baseOid, gitMB, statusHash, repoFiles, envSteps, fails,
    \* history: the tracked files saved since the baseline and not yet named,
    \* or covered by invalidate_all, in an emitted update
    owed,
    \* watcher_loop's locals
    wPc, last_mt, last_head_oid, last_base_oid, last_status_hash,
    w_merge_base, w_files, file_mtimes, invalidate_all_caches, invalidate_paths,
    \* the base the running watcher was spawned with, and how many were spawned
    w_base_branch, spawns,
    \* the mpsc channel
    chan, rxAlive,
    \* history of the current / last poll tick
    obs, envDirty,
    \* the App and run_app's locals
    app, fgPc, cached_visible, last_tree_version, needs_redraw, had_events,
    \* history of the current foreground iteration and of its drain
    iterLog, drainLog, msgsSent, evCount,
    \* history of the last switch_base_branch
    switchLog,
    \* one call of get_changed_files: what git and the file system answer, and
    \* the call's position and locals
    git_out, col,
    \* one call of build_tree followed by a flattening: the files, those still
    \* to insert, the tree so far and the flattened list
    tb,
    \* one path field of a numstat line: the rename it stands for, the field
    \* and what normalize_numstat_path makes of it
    nr,
    \* the commands started so far
    cmds,
    \* one call of detect_base_branch: the repository, the name given, the name
    \* being resolved, the candidates left and the result
    rb,
    \* the watchers spawned so far with their channels, the handle the App
    \* holds and the update it applied last
    sw

envVars == <<mt, fmt, headOid, baseOid, gitMB, statusHash, repoFiles, envSteps, owed>>
wVars == <<wPc, last_mt, last_head_oid, last_base_oid, last_status_hash,
           w_merge_base, w_files, file_mtimes, invalidate_all_caches, invalidate_paths,
           w_base_branch, spawns>>
chanVars == <<chan, rxAlive>>
fgVars == <<app, fgPc, cached_visible, last_tree_version, needs_redraw, had_events,
            iterLog, drainLog, msgsSent, evCount, switchLog>>
gitVars == <<git_out, col>>
fnVars == <<gitVars, tb, nr, cmds, rb, sw>>
progVars == <<envVars, fails, wVars, chanVars, obs, envDirty, fgVars>>
vars == <<progVars, fnVars>>

(* ------------------------- watcher.rs helpers -------------------------- *)
\* get_file_mtimes: path -> mtime for the files that have one
get_file_mtimes(fs) == [p \in {q \in PathsOf(fs) : fmt[q] # 0} |-> fmt[p]]

\* HashMap::get(..).copied() : 0 stands for None
MtimeGet(m, p) == IF p \in DOMAIN m THEN m[p] ELSE 0

\* variant: every tracked path is reported, changed or not
ChangedPaths_allTracked(fs, old, new) == PathsOf(fs)

\* lines 132-140: the paths whose recorded mtime differs from the one just read
ChangedPaths(fs, old, new) == { p \in PathsOf(fs) : MtimeGet(old, p) # MtimeGet(new, p) }

\* variant: the fingerprint is computed on every tick
NeedsStatusCheck_always(paths, gitDirChanged) == TRUE

\* line 143: the guard of the status-fingerprint call
NeedsStatusCheck(paths, gitDirChanged) == paths # {} \/ gitDirChanged

FilesChanged(fs, mb, all, paths) ==
    [files |-> fs, merge_base |-> mb, invalidate_all |-> all, invalidate_paths |-> paths]

\* outcome of Sender::send : Err exactly when the receiver was dropped
SendOk == rxAlive

\* variant: a failed send is ignored
PcAfterSend_keepRunning(ok) == "poll"

\* lines 174-177: the loop leaves only on a failed send
PcAfterSend(ok) == IF ok THEN "poll" ELSE "done"

\* what a poll tick saw and did: the facts about the repository are read off
\* the repository itself, the facts about the watcher off what it executed
NoObs == [outcome |-> "none", idxCh |-> FALSE, refCh |-> FALSE, changed |-> {},
          resolved |-> FALSE, idsDiffer |-> FALSE, mbAtPoll |-> "", hashDiffers |-> FALSE,
          tools |-> {}, failed |-> {}, emitted |-> <<>>, delivered |-> 0,
          prevFailed |-> {}, envSince |-> FALSE, stateKept |-> TRUE]

\* the watcher's private comparison state
WatcherState == <<last_mt, last_head_oid, last_base_oid, last_status_hash,
                  w_merge_base, w_files, file_mtimes>>


(* ------------------------------- app.rs -------------------------------- *)
DiffSources == {"Worktree", "Index", "Untracked"}

\* git::get_file_diff: the patch of one path against a merge-base, and where it came from
get_file_diff(mb, path, src) == [source |-> src, diff |-> [against |-> mb, of |-> path]]

\* Highlighter::highlight_diff
highlight_diff(diff, path) == [spans |-> diff]

\* number of lines of the highlighted diff of a path
DiffLines(path) == IF path = PathC THEN 6 ELSE 2

\* the terminal: rows of the tree panel and of the diff panel (UiLayout)
TreeRows == 2
DiffRows == 3

Min(x, y) == IF x < y THEN x ELSE y
SatSub(x, y) == IF x > y THEN x - y ELSE 0

Keys(cache) == DOMAIN cache
Remove(cache, ps) == [p \in Keys(cache) \ ps |-> cache[p]]
Retain_keepAll(cache, keep) == cache
Retain(cache, keep) == [p \in Keys(cache) \cap keep |-> cache[p]]
Insert(cache, p, v) == [q \in Keys(cache) \cup {p} |-> IF q = p THEN v ELSE cache[q]]

visible_items(a) == collect_visible(a.tree, <<>>, 0, a.expanded)

\* Option<String> as a sequence of at most one path
selected_path(a) ==
    LET v == visible_items(a)
    IN  IF a.cursor < Len(v) THEN <<v[a.cursor + 1].path>> ELSE <<>>

\* variant: per-path invalidation is skipped
InvalidateCaches_keepPaths(a, all, paths) ==
    IF all
    THEN [a EXCEPT !.diff_cache = <<>>, !.diff_source_cache = <<>>, !.highlighted_cache = <<>>]
    ELSE a

\* apply_file_changes, lines 144-155
InvalidateCaches(a, all, paths) ==
    IF all
    THEN [a EXCEPT !.diff_cache = <<>>, !.diff_source_cache = <<>>, !.highlighted_cache = <<>>]
    ELSE [a EXCEPT !.diff_cache = Remove(@, paths),
                   !.diff_source_cache = Remove(@, paths),
                   !.highlighted_cache = Remove(@, paths)]

\* variant: the old selection is not searched for, the index is only clamped
PreserveCursor_clampOnly(a, old_selected) ==
    LET visible_count == Len(visible_items(a))
    IN  IF visible_count = 0
        THEN [a EXCEPT !.cursor = 0, !.scroll_offset = 0, !.diff_scroll = 0]
        ELSE [a EXCEPT !.cursor = IF @ >= visible_count THEN visible_count - 1 ELSE @]

\* apply_file_changes, lines 185-207
PreserveCursor(a, old_selected) ==
    LET v == visible_items(a)
        visible_count == Len(v)
        hits == IF old_selected = <<>> THEN {}
                ELSE {i \in 1..visible_count : v[i].path = old_selected[1]}
        c1 == IF hits # {} THEN (CHOOSE i \in hits : \A j \in hits : i <= j) - 1
              ELSE a.cursor
        c2 == IF c1 >= visible_count /\ visible_count > 0 THEN visible_count - 1 ELSE c1
    IN  IF visible_count = 0
        THEN [a EXCEPT !.cursor = 0, !.scroll_offset = 0, !.diff_scroll = 0]
        ELSE [a EXCEPT !.cursor = c2]

\* variant: every directory of the rebuilt tree is opened again
RecomputeExpanded_allOpen(expanded, old_dirs, new_dirs) == new_dirs

\* variant: directories that no longer exist stay in the set
RecomputeExpanded_keepGone(expanded, old_dirs, new_dirs) ==
    expanded \cup (new_dirs \ old_dirs)

\* apply_file_changes, lines 166-177
RecomputeExpanded(expanded, old_dirs, new_dirs) ==
    (expanded \cap new_dirs) \cup (new_dirs \ old_dirs)

apply_file_changes(a, m) ==
    LET a1 == InvalidateCaches(a, m.invalidate_all, m.invalidate_paths)
        old_selected == selected_path(a1)
        old_dirs == expand_all_dirs(a1.tree, <<>>)
        new_tree == build_tree(m.files)
        new_dirs == expand_all_dirs(new_tree, <<>>)
        new_paths == PathsOf(m.files)
        a2 == [a1 EXCEPT !.merge_base = m.merge_base,
                         !.files = m.files,
                         !.tree = new_tree,
                         !.tree_version = @ + 1,
                         !.expanded = RecomputeExpanded(@, old_dirs, new_dirs),
                         !.diff_cache = Retain(@, new_paths),
                         !.diff_source_cache = Retain(@, new_paths),
                         !.highlighted_cache = Retain(@, new_paths)]
    IN  PreserveCursor(a2, old_selected)

\* variant: the newest message is applied first
RECURSIVE check_for_changes_newestFirst(_, _)
check_for_changes_newestFirst(a, q) ==
    IF q = <<>> THEN a
    ELSE check_for_changes_newestFirst(apply_file_changes(a, q[Len(q)]),
                                       SubSeq(q, 1, Len(q) - 1))

\* check_for_changes: try_recv until the channel is empty, applying each message
RECURSIVE check_for_changes(_, _)
check_for_changes(a, q) ==
    IF q = <<>> THEN a
    ELSE check_for_changes(apply_file_changes(a, Head(q)), Tail(q))

toggle_expand(a) ==
    LET v == visible_items(a)
    IN  IF a.cursor < Len(v) /\ IsDir(v[a.cursor + 1].node)
        THEN LET path == v[a.cursor + 1].path
             IN  [a EXCEPT !.expanded = IF path \in @ THEN @ \ {path} ELSE @ \cup {path},
                           !.tree_version = @ + 1]
        ELSE a

collapse_selected(a) ==
    LET v == visible_items(a)
    IN  IF a.cursor < Len(v) /\ v[a.cursor + 1].path \in a.expanded
        THEN [a EXCEPT !.expanded = @ \ {v[a.cursor + 1].path},
                       !.tree_version = @ + 1]
        ELSE a

ensure_highlighted(a, path, src) ==
    IF path \in Keys(a.highlighted_cache) THEN a
    ELSE LET got == get_file_diff(a.merge_base, path, src)
             a1 == IF path \notin Keys(a.diff_cache)
                   THEN [a EXCEPT !.diff_cache = Insert(@, path, got.diff),
                                  !.diff_source_cache = Insert(@, path, got.source)]
                   ELSE a
         IN  [a1 EXCEPT !.highlighted_cache =
                            Insert(@, path, highlight_diff(a1.diff_cache[path], path))]

\* App::get_highlighted(path).len()
get_highlighted_len(a, path) ==
    IF path \in Keys(a.highlighted_cache) THEN DiffLines(path) ELSE 0

\* App::new
NewApp ==
    LET t == build_tree(InitialChangeSet)
    IN  [files |-> InitialChangeSet, tree |-> t,
         expanded |-> expand_all_dirs(t, <<>>),
         cursor |-> 0, scroll_offset |-> 0, diff_scroll |-> 0, diff_line_count |-> 0,
         diff_cache |-> <<>>, diff_source_cache |-> <<>>, highlighted_cache |-> <<>>,
         merge_base |-> "mb1", base_branch |-> "origin/main", tree_version |-> 1,
         branch_modal |-> FALSE]

\* variant: the diff caches survive the switch
switch_base_branch_keepCaches(a, resolved, merge_base, files) ==
    LET t == build_tree(files)
    IN  [a EXCEPT !.base_branch = resolved,
                  !.merge_base = merge_base,
                  !.tree = t,
                  !.tree_version = @ + 1,
                  !.expanded = expand_all_dirs(t, <<>>),
                  !.files = files,
                  !.cursor = 0, !.scroll_offset = 0, !.diff_scroll = 0]

\* variant: the tree of the old files is kept
switch_base_branch_staleTree(a, resolved, merge_base, files) ==
    [a EXCEPT !.base_branch = resolved,
              !.merge_base = merge_base,
              !.diff_cache = <<>>,
              !.diff_source_cache = <<>>,
              !.highlighted_cache = <<>>,
              !.tree_version = @ + 1,
              !.files = files,
              !.cursor = 0, !.scroll_offset = 0, !.diff_scroll = 0]

\* switch_base_branch, lines 316-331: the state after a successful collection
switch_base_branch(a, resolved, merge_base, files) ==
    LET t == build_tree(files)
    IN  [a EXCEPT !.base_branch = resolved,
                  !.merge_base = merge_base,
                  !.diff_cache = <<>>,
                  !.diff_source_cache = <<>>,
                  !.highlighted_cache = <<>>,
                  !.tree = t,
                  !.tree_version = @ + 1,
                  !.expanded = expand_all_dirs(t, <<>>),
                  !.files = files,
                  !.cursor = 0, !.scroll_offset = 0, !.diff_scroll = 0]

\* the branch names list_branches offers in the modal
Branches == {"develop"}

\* git::resolve_base_ref: Ok(remote-tracking ref), Ok(the name itself) or Err
RemoteRef(branch) == IF branch = "develop" THEN "origin/develop" ELSE branch
ResolveOutcomes(branch) == { <<RemoteRef(branch)>>, <<branch>>, <<>> }

\* change lists a collection against the newly selected base can return
SwitchChangeSets ==
    { <<>>,
      << FileEntry(PathC, "Modified", 3, 1), FileEntry(PathE, "Added", 1, 0) >> }

NoSwitch == [valid |-> FALSE]

NoDrain == [valid |-> FALSE, msgs |-> <<>>, before |-> <<>>, beforeLast |-> <<>>,
            remaining |-> 0]

(* ------------------------------ Init ----------------------------------- *)
InitProgram ==
    /\ mt = [f \in CtlFiles |-> IF f \in {"index", "HEAD"} THEN 1 ELSE 0]
    /\ fmt = [p \in Paths |-> IF p \in PathsOf(InitialChangeSet) THEN 1 ELSE 0]
    /\ headOid = "o1" /\ baseOid = "o1" /\ gitMB = "mb1" /\ statusHash = 1
    /\ repoFiles = InitialChangeSet
    /\ envSteps = 0 /\ fails = 0 /\ owed = {}
    /\ wPc = "start"
    /\ last_mt = [f \in CtlFiles |-> 0]
    /\ last_head_oid = "" /\ last_base_oid = "" /\ last_status_hash = 0
    /\ w_merge_base = "mb1" /\ w_files = InitialChangeSet
    /\ file_mtimes = <<>>
    /\ invalidate_all_caches = FALSE /\ invalidate_paths = {}
    /\ chan = <<>> /\ rxAlive = TRUE
    /\ obs = NoObs /\ envDirty = FALSE
    /\ app = NewApp
    /\ fgPc = "events" /\ cached_visible = <<>> /\ last_tree_version = 0
    /\ needs_redraw = TRUE /\ had_events = FALSE
    /\ iterLog = <<>> /\ drainLog = NoDrain /\ msgsSent = 0 /\ evCount = 0
    /\ w_base_branch = "origin/main" /\ spawns = 1
    /\ switchLog = NoSwitch

\* no call of get_changed_files is followed step by step while the program runs
Init ==
    /\ InitProgram
    /\ git_out = NoGitOut /\ col = NoCall /\ tb = NoBuild /\ nr = NoRename /\ cmds = <<>> /\ rb = NoDetect /\ sw = NoSpawn

(* -------------------- the repository is mutated ------------------------ *)
EnvStep(changed) ==
    /\ envSteps < MaxEnv
    /\ envSteps' = envSteps + 1
    /\ envDirty' = TRUE
    /\ UNCHANGED <<fnVars, fails, wVars, chanVars, obs, fgVars>>
    /\ changed

\* a git control file is rewritten
TouchCtl ==
    \E f \in CtlFiles :
        EnvStep(/\ mt' = [mt EXCEPT ![f] = @ + 1]
                /\ UNCHANGED <<fmt, headOid, baseOid, gitMB, statusHash, repoFiles, owed>>)

\* a working-tree file is saved
TouchFile ==
    \E p \in Paths :
        EnvStep(/\ fmt' = [fmt EXCEPT ![p] = @ + 1]
                /\ owed' = IF p \in PathsOf(w_files) /\ wPc \in {"poll", "collect"}
                           THEN owed \cup {p} ELSE owed
                /\ UNCHANGED <<mt, headOid, baseOid, gitMB, statusHash, repoFiles>>)

\* HEAD or the base ref moves to another commit; the merge-base may move with it
MoveRef ==
    \E o \in Oids, mb \in MergeBases, head \in BOOLEAN :
        EnvStep(/\ IF head THEN headOid # o /\ headOid' = o /\ UNCHANGED baseOid
                           ELSE baseOid # o /\ baseOid' = o /\ UNCHANGED headOid
                /\ gitMB' = mb
                /\ UNCHANGED <<mt, fmt, statusHash, repoFiles, owed>>)

\* the porcelain status output changes
ChangeStatus ==
    \E h \in Hashes :
        EnvStep(/\ h # statusHash /\ statusHash' = h
                /\ UNCHANGED <<mt, fmt, headOid, baseOid, gitMB, repoFiles, owed>>)

\* the set of changed files changes
ChangeFiles ==
    \E cs \in ChangeSets :
        EnvStep(/\ cs # repoFiles /\ repoFiles' = cs
                /\ UNCHANGED <<mt, fmt, headOid, baseOid, gitMB, statusHash, owed>>)

(* --------------------------- watcher_loop ------------------------------ *)
\* a version-control invocation succeeds, or fails while the budget lasts
Outcomes == {b \in BOOLEAN : b \/ fails < MaxFail}

\* lines 52-69: the baseline the loop compares against
WatcherStart ==
    /\ wPc = "start"
    /\ \E okH \in Outcomes, okB \in Outcomes, okS \in Outcomes :
        LET nf == Cardinality({i \in 1..3 : ~ <<okH, okB, okS>>[i]}) IN
        /\ fails + nf <= MaxFail
        /\ fails' = fails + nf
        /\ last_head_oid' = IF okH THEN headOid ELSE ""
        /\ last_base_oid' = IF okB THEN baseOid ELSE ""
        /\ last_status_hash' = IF okS THEN statusHash ELSE 0
    /\ last_mt' = mt
    /\ file_mtimes' = get_file_mtimes(w_files)
    /\ wPc' = "poll"
    /\ UNCHANGED <<fnVars, envVars, envDirty, w_merge_base, w_files, invalidate_all_caches,
                   invalidate_paths, w_base_branch, spawns, chanVars, obs, fgVars>>

\* lines 72-154: sleep, cheap mtime checks, id re-resolution, fingerprint
TickPoll ==
    /\ wPc = "poll"
    /\ envDirty' = FALSE
    /\ UNCHANGED <<fnVars, envVars, w_files, file_mtimes, w_base_branch, spawns, chanVars, fgVars>>
    /\ \E okH \in Outcomes, okB \in Outcomes, okM \in Outcomes, okS \in Outcomes :
        LET idxCh == mt["index"] # last_mt["index"]
            refCh == \E f \in RefFiles : mt[f] # last_mt[f]
            git_dir_changed == idxCh \/ refCh
            \* lines 99-117
            abandoned == refCh /\ (~okH \/ ~okB)
            resolved == refCh /\ okH /\ okB
            idsDiffer == resolved /\ (headOid # last_head_oid \/ baseOid # last_base_oid)
            mbDone == idsDiffer /\ okM
            \* lines 132-140
            new_mtimes == get_file_mtimes(w_files)
            paths == ChangedPaths(w_files, file_mtimes, new_mtimes)
            \* lines 143-150
            statusRun == ~abandoned /\ NeedsStatusCheck(paths, git_dir_changed)
            hashNew == statusRun /\ okS /\ statusHash # last_status_hash
            all == idxCh \/ idsDiffer
            needs_refresh == idxCh \/ mbDone \/ paths # {} \/ hashNew
            tools == (IF refCh THEN {"rev-parse HEAD"} ELSE {})
                     \cup (IF refCh /\ okH THEN {"rev-parse base"} ELSE {})
                     \cup (IF idsDiffer THEN {"merge-base"} ELSE {})
                     \cup (IF statusRun THEN {"status"} ELSE {})
            failed == {t \in tools :
                          \/ t = "rev-parse HEAD" /\ ~okH
                          \/ t = "rev-parse base" /\ ~okB
                          \/ t = "merge-base" /\ ~okM
                          \/ t = "status" /\ ~okS}
            \* outcomes of calls that are not made are not choices
            canonical == /\ (~refCh => okH) /\ ((~refCh \/ ~okH) => okB)
                         /\ (~idsDiffer => okM) /\ (~statusRun => okS)
        IN
        /\ canonical
        /\ fails + Cardinality(failed) <= MaxFail
        /\ fails' = fails + Cardinality(failed)
        /\ last_mt' = [f \in CtlFiles |->
                          IF (f = "index" /\ idxCh) \/ (f \in RefFiles /\ refCh)
                          THEN mt[f] ELSE last_mt[f]]
        /\ IF mbDone
           THEN /\ w_merge_base' = gitMB
                /\ last_head_oid' = headOid
                /\ last_base_oid' = baseOid
           ELSE UNCHANGED <<w_merge_base, last_head_oid, last_base_oid>>
        /\ last_status_hash' = IF hashNew /\ ~abandoned THEN statusHash ELSE last_status_hash
        /\ IF ~abandoned /\ needs_refresh
           THEN /\ wPc' = "collect"
                /\ invalidate_all_caches' = all
                /\ invalidate_paths' = paths
           ELSE /\ wPc' = "poll"
                /\ invalidate_all_caches' = FALSE
                /\ invalidate_paths' = {}
        /\ obs' = [outcome |-> IF abandoned THEN "abandoned"
                               ELSE IF needs_refresh THEN "collecting" ELSE "quiet",
                   idxCh |-> mt["index"] # last_mt["index"],
                   refCh |-> \E f \in RefFiles : mt[f] # last_mt[f],
                   changed |-> {p \in PathsOf(w_files) : MtimeGet(file_mtimes, p) # fmt[p]},
                   resolved |-> resolved,
                   idsDiffer |-> resolved /\ <<headOid, baseOid>> # <<last_head_oid, last_base_oid>>,
                   mbAtPoll |-> gitMB,
                   hashDiffers |-> statusHash # last_status_hash,
                   tools |-> tools, failed |-> failed,
                   emitted |-> <<>>, delivered |-> 0,
                   prevFailed |-> obs.failed, envSince |-> envDirty,
                   stateKept |-> WatcherState' = WatcherState]

\* lines 156-177: the collection pipeline and the send
TickCollect ==
    /\ wPc = "collect"
    /\ \E okC \in Outcomes :
        /\ fails' = IF okC THEN fails ELSE fails + 1
        /\ IF okC
           THEN LET new_files == repoFiles
                    msg == FilesChanged(new_files, w_merge_base,
                                        invalidate_all_caches, invalidate_paths)
                IN  /\ file_mtimes' = get_file_mtimes(new_files)
                    /\ w_files' = new_files
                    /\ chan' = IF SendOk THEN Append(chan, msg) ELSE chan
                    /\ wPc' = PcAfterSend(SendOk)
                    /\ owed' = IF invalidate_all_caches \/ ~SendOk THEN {}
                               ELSE owed \ invalidate_paths
                    /\ obs' = [obs EXCEPT !.outcome = IF SendOk THEN "sent" ELSE "sendFailed",
                                          !.tools = @ \cup {"collect"},
                                          !.emitted = <<msg>>,
                                          !.delivered = Len(chan') - Len(chan),
                                          !.stateKept = FALSE]
           ELSE /\ wPc' = "poll"
                /\ obs' = [obs EXCEPT !.outcome = "collectFailed",
                                      !.tools = @ \cup {"collect"},
                                      !.failed = @ \cup {"collect"}]
                /\ UNCHANGED <<file_mtimes, w_files, chan, owed>>
    /\ invalidate_all_caches' = FALSE
    /\ invalidate_paths' = {}
    /\ UNCHANGED <<fnVars, mt, fmt, headOid, baseOid, gitMB, statusHash, repoFiles, envSteps,
                   envDirty, rxAlive, last_mt, last_head_oid, last_base_oid,
                   last_status_hash, w_merge_base, w_base_branch, spawns, fgVars>>

(* ----------------------------- consumer -------------------------------- *)
\* GitWatcher::try_recv : takes the oldest message, if any
TryRecv ==
    /\ rxAlive
    /\ chan # <<>>
    /\ chan' = Tail(chan)
    /\ UNCHANGED <<fnVars, envVars, fails, wVars, rxAlive, obs, envDirty, fgVars>>

\* the GitWatcher handle (and its Receiver) is dropped
DropReceiver ==
    /\ rxAlive
    /\ rxAlive' = FALSE
    /\ chan' = <<>>
    /\ UNCHANGED <<fnVars, envVars, fails, wVars, obs, envDirty, fgVars>>

(* ------------------------------- ui.rs --------------------------------- *)
\* variant: the visible list is rebuilt before the channel is drained
NextPhase_rebuildFirst(pc) ==
    CASE pc = "events" -> "rebuild"
      [] pc = "rebuild" -> "drain"
      [] pc = "drain" -> "render"
      [] pc = "render" -> "wait"
      [] pc = "wait" -> "events"

\* run_app: the order of the phases of one loop iteration
NextPhase(pc) ==
    CASE pc = "events" -> "drain"
      [] pc = "drain" -> "rebuild"
      [] pc = "rebuild" -> "render"
      [] pc = "render" -> "wait"
      [] pc = "wait" -> "events"

Logged(log, what) == IF log # <<>> /\ log[Len(log)] = what THEN log ELSE Append(log, what)

KeyCodes == {"j", "k", "J", "h", "l"}

\* handle_key
handle_key(a, code, visible) ==
    LET visible_count == Len(visible)
        on_dir == a.cursor < visible_count /\ visible[a.cursor + 1].is_dir
    IN  CASE code = "j" ->
                IF visible_count > 0 /\ a.cursor < visible_count - 1
                THEN [a EXCEPT !.cursor = @ + 1, !.diff_scroll = 0] ELSE a
          [] code = "k" ->
                IF a.cursor > 0 THEN [a EXCEPT !.cursor = @ - 1, !.diff_scroll = 0] ELSE a
          [] code = "J" ->
                LET max_scroll == SatSub(a.diff_line_count, DiffRows)
                IN  [a EXCEPT !.diff_scroll = Min(@ + 3, max_scroll)]
          [] code = "h" -> collapse_selected(a)
          [] code = "l" -> IF on_dir THEN toggle_expand(a) ELSE a

\* PHASE 1: one pending key press is read and handled
HandleKey ==
    /\ fgPc = "events"
    /\ evCount < MaxEvents
    /\ ~app.branch_modal
    /\ \E code \in KeyCodes : app' = handle_key(app, code, cached_visible)
    /\ evCount' = evCount + 1
    /\ had_events' = TRUE
    /\ needs_redraw' = TRUE
    /\ iterLog' = Logged(iterLog, "input")
    /\ switchLog' = NoSwitch
    /\ UNCHANGED <<fnVars, envVars, fails, wVars, chanVars, obs, envDirty, fgPc, cached_visible,
                   last_tree_version, drainLog, msgsSent>>

\* PHASE 1: 'q' or Ctrl+C returns from run_app; the App and its watcher handle are dropped
Quit ==
    /\ fgPc = "events"
    /\ evCount < MaxEvents
    /\ evCount' = evCount + 1
    /\ fgPc' = "exit"
    /\ rxAlive' = FALSE /\ chan' = <<>>
    /\ had_events' = TRUE
    /\ iterLog' = Logged(iterLog, "input")
    /\ switchLog' = NoSwitch
    /\ UNCHANGED <<fnVars, envVars, fails, wVars, obs, envDirty, app, cached_visible,
                   last_tree_version, needs_redraw, drainLog, msgsSent>>

\* PHASE 1 ends: event::poll(0) reports no pending event
EventsDone ==
    /\ fgPc = "events"
    /\ fgPc' = NextPhase(fgPc)
    /\ switchLog' = NoSwitch
    /\ UNCHANGED <<fnVars, envVars, fails, wVars, chanVars, obs, envDirty, app, cached_visible,
                   last_tree_version, needs_redraw, had_events, iterLog, drainLog,
                   msgsSent, evCount>>

\* PHASE 2: app.check_for_changes()
CheckForChanges ==
    /\ fgPc = "drain"
    /\ app' = check_for_changes(app, chan)
    /\ chan' = <<>>
    /\ drainLog' = [valid |-> TRUE, msgs |-> chan, before |-> app,
                    beforeLast |-> IF chan = <<>> THEN app
                                   ELSE check_for_changes(app, SubSeq(chan, 1, Len(chan) - 1)),
                    remaining |-> Len(chan')]
    /\ iterLog' = Logged(iterLog, "drain")
    /\ fgPc' = NextPhase(fgPc)
    /\ UNCHANGED <<fnVars, envVars, fails, wVars, rxAlive, obs, envDirty, cached_visible,
                   last_tree_version, needs_redraw, had_events, msgsSent, evCount,
                   switchLog>>

CachedItem(it) ==
    [depth |-> it.depth, path |-> it.path, is_dir |-> IsDir(it.node),
     file |-> IF IsDir(it.node) THEN <<>> ELSE <<it.node.file>>]

\* PHASE 3 and the defensive clamp, lines 143-173
RebuildVisible ==
    /\ fgPc = "rebuild"
    /\ LET stale == app.tree_version # last_tree_version
           vis == IF stale
                  THEN LET v == visible_items(app) IN [i \in 1..Len(v) |-> CachedItem(v[i])]
                  ELSE cached_visible
           shrunk == vis # <<>> /\ app.cursor >= Len(vis)
       IN  /\ cached_visible' = vis
           /\ last_tree_version' = app.tree_version
           /\ needs_redraw' = (needs_redraw \/ stale \/ shrunk)
           /\ app' = [app EXCEPT !.cursor = IF vis = <<>> THEN 0
                                            ELSE IF shrunk THEN Len(vis) - 1 ELSE @,
                                  !.scroll_offset = IF vis = <<>> THEN 0 ELSE @,
                                  !.diff_scroll = IF vis = <<>> \/ shrunk THEN 0 ELSE @]
    /\ iterLog' = Logged(iterLog, "rebuild")
    /\ drainLog' = NoDrain
    /\ fgPc' = NextPhase(fgPc)
    /\ UNCHANGED <<fnVars, envVars, fails, wVars, chanVars, obs, envDirty, had_events,
                   msgsSent, evCount, switchLog>>

\* clamp_scroll, lines 250-260
clamp_scroll(a) ==
    LET max_scroll == SatSub(a.diff_line_count, DiffRows)
    IN  [a EXCEPT !.scroll_offset = IF TreeRows = 0 THEN 0 ELSE @,
                  !.diff_scroll = Min(@, max_scroll)]

\* adjust_tree_scroll, lines 262-279
adjust_tree_scroll(a) ==
    IF TreeRows = 0 THEN [a EXCEPT !.scroll_offset = 0]
    ELSE LET s1 == IF a.cursor >= a.scroll_offset + TreeRows
                   THEN SatSub(a.cursor + 1, TreeRows) ELSE a.scroll_offset
         IN  [a EXCEPT !.scroll_offset = IF a.cursor < s1 THEN a.cursor ELSE s1]

\* PHASE 4: render, loading the selected file's diff on demand
Render ==
    /\ fgPc = "render"
    /\ LET selected_file_path ==
               IF app.cursor < Len(cached_visible) /\ ~cached_visible[app.cursor + 1].is_dir
               THEN <<cached_visible[app.cursor + 1].file[1].path>> ELSE <<>>
           loads == /\ needs_redraw /\ selected_file_path # <<>>
                    /\ selected_file_path[1] \notin Keys(app.diff_cache)
       IN  \E src \in DiffSources :
               /\ (~loads => src = "Worktree")
               /\ app' = IF ~needs_redraw THEN app
                         ELSE LET a1 == IF selected_file_path # <<>>
                                        THEN ensure_highlighted(app, selected_file_path[1], src)
                                        ELSE app
                                  a2 == [a1 EXCEPT !.diff_line_count =
                                            IF selected_file_path # <<>>
                                            THEN get_highlighted_len(a1, selected_file_path[1])
                                            ELSE 0]
                              IN  adjust_tree_scroll(clamp_scroll(a2))
    /\ iterLog' = IF needs_redraw THEN Logged(iterLog, "render") ELSE iterLog
    /\ needs_redraw' = FALSE
    /\ fgPc' = NextPhase(fgPc)
    /\ UNCHANGED <<fnVars, envVars, fails, wVars, chanVars, obs, envDirty, cached_visible,
                   last_tree_version, had_events, drainLog, msgsSent, evCount,
                   switchLog>>

\* PHASE 5: wait for the next event, then loop
Wait ==
    /\ fgPc = "wait"
    /\ fgPc' = NextPhase(fgPc)
    /\ had_events' = FALSE
    /\ iterLog' = <<>>
    /\ UNCHANGED <<fnVars, envVars, fails, wVars, chanVars, obs, envDirty, app, cached_visible,
                   last_tree_version, needs_redraw, drainLog, msgsSent, evCount,
                   switchLog>>

\* watcher.rs lines 156-177 as the application sees them: some tick ends in a send.
\* The application never reads invalidate_paths of an update whose invalidate_all
\* is set (app.rs line 145), so such an update is sent with the empty set.
WatcherEmit ==
    /\ msgsSent < MaxMsgs
    /\ SendOk
    /\ \E fs \in ChangeSets, mb \in MergeBases, all \in BOOLEAN,
          paths \in {ps \in SUBSET PathsOf(w_files) : Cardinality(ps) <= MaxInvPaths} :
            /\ all => paths = {}
            /\ chan' = Append(chan, FilesChanged(fs, mb, all, paths))
            /\ w_files' = fs
    /\ msgsSent' = msgsSent + 1
    /\ UNCHANGED <<fnVars, envVars, fails, wPc, last_mt, last_head_oid, last_base_oid,
                   last_status_hash, w_merge_base, file_mtimes, invalidate_all_caches,
                   invalidate_paths, w_base_branch, spawns, rxAlive, obs, envDirty, app,
                   fgPc, cached_visible, last_tree_version, needs_redraw, had_events,
                   iterLog, drainLog, evCount>>
    /\ switchLog' = NoSwitch

\* PHASE 1, key 'b': open_branch_modal; no modal when list_branches fails or is empty
OpenBranchModal ==
    /\ fgPc = "events"
    /\ ~app.branch_modal
    /\ evCount < MaxEvents
    /\ evCount' = evCount + 1
    /\ \E listed \in BOOLEAN : app' = [app EXCEPT !.branch_modal = listed]
    /\ had_events' = TRUE
    /\ needs_redraw' = TRUE
    /\ iterLog' = Logged(iterLog, "input")
    /\ switchLog' = NoSwitch
    /\ UNCHANGED <<fnVars, envVars, fails, wVars, chanVars, obs, envDirty, fgPc, cached_visible,
                   last_tree_version, drainLog, msgsSent>>

\* PHASE 1, Esc in the modal: handle_modal_key closes it
CloseBranchModal ==
    /\ fgPc = "events"
    /\ app.branch_modal
    /\ evCount < MaxEvents
    /\ evCount' = evCount + 1
    /\ app' = [app EXCEPT !.branch_modal = FALSE]
    /\ had_events' = TRUE
    /\ needs_redraw' = TRUE
    /\ iterLog' = Logged(iterLog, "input")
    /\ switchLog' = NoSwitch
    /\ UNCHANGED <<fnVars, envVars, fails, wVars, chanVars, obs, envDirty, fgPc, cached_visible,
                   last_tree_version, drainLog, msgsSent>>

\* PHASE 1, Enter in the modal: handle_modal_key closes it and calls
\* switch_base_branch (app.rs lines 302-334) with the selected branch
SwitchBaseBranch ==
    /\ fgPc = "events"
    /\ app.branch_modal
    /\ evCount < MaxEvents
    /\ evCount' = evCount + 1
    /\ \E branch \in Branches : \E r \in ResolveOutcomes(branch),
          okM \in BOOLEAN, okC \in BOOLEAN, mb \in MergeBases, fs \in SwitchChangeSets :
        LET closed == [app EXCEPT !.branch_modal = FALSE]
            \* lines 303-306: a failed resolution falls back to the name as typed
            resolved == IF r # <<>> THEN r[1] ELSE branch
            outcome == IF ~okM THEN "no merge-base"
                       ELSE IF ~okC THEN "no collection" ELSE "switched"
        IN  /\ (~okM => okC)
            /\ IF outcome = "switched"
               THEN /\ app' = switch_base_branch(closed, resolved, mb, fs)
                    \* respawn_watcher: the old handle and its receiver are dropped
                    /\ chan' = <<>>
                    /\ rxAlive' = TRUE
                    /\ spawns' = spawns + 1
                    /\ wPc' = "start"
                    /\ w_base_branch' = resolved
                    /\ w_merge_base' = mb
                    /\ w_files' = fs
                    /\ last_mt' = [f \in CtlFiles |-> 0]
                    /\ last_head_oid' = "" /\ last_base_oid' = "" /\ last_status_hash' = 0
                    /\ file_mtimes' = <<>>
                    /\ invalidate_all_caches' = FALSE /\ invalidate_paths' = {}
               ELSE /\ app' = closed
                    /\ UNCHANGED <<wVars, chanVars>>
            /\ switchLog' = [valid |-> TRUE, outcome |-> outcome, branch |-> branch,
                             resolved_ok |-> r # <<>>, base |-> resolved,
                             merge_base |-> IF outcome = "switched" THEN mb ELSE "",
                             files |-> IF outcome = "switched" THEN fs ELSE <<>>,
                             before |-> app, chan_before |-> chan,
                             watcher_before |-> <<w_base_branch, w_merge_base, w_files,
                                                  spawns, rxAlive>>]
    /\ had_events' = TRUE
    /\ needs_redraw' = TRUE
    /\ iterLog' = Logged(iterLog, "input")
    /\ UNCHANGED <<fnVars, envVars, fails, obs, envDirty, fgPc, cached_visible,
                   last_tree_version, drainLog, msgsSent>>

(* ---------------------- get_changed_files, step by step ----------------- *)
\* line 63: git_diff_status_and_stats(merge_base, false)?
WorkDiff ==
    /\ col.pc = "work"
    /\ col' = IF git_out.work_ok
              THEN [col EXCEPT !.pc = "index",
                               !.work_files = ParseDiffOutput(DiffOutput(git_out.work))]
              ELSE [col EXCEPT !.pc = "done", !.result = "err"]
    /\ UNCHANGED <<progVars, git_out, tb, nr, cmds, rb, sw>>

\* line 64: git_diff_status_and_stats(merge_base, true)?
IndexDiff ==
    /\ col.pc = "index"
    /\ col' = IF git_out.index_ok
              THEN [col EXCEPT !.pc = "merge",
                               !.index_files = ParseDiffOutput(DiffOutput(git_out.index))]
              ELSE [col EXCEPT !.pc = "done", !.result = "err"]
    /\ UNCHANGED <<progVars, git_out, tb, nr, cmds, rb, sw>>

\* lines 66-81
MergeDiffs ==
    /\ col.pc = "merge"
    /\ col' = [col EXCEPT !.pc = "untracked",
                          !.files = MergeIndex(col.work_files, col.index_files)]
    /\ UNCHANGED <<progVars, git_out, tb, nr, cmds, rb, sw>>

\* lines 84-117: output()? fails only when git could not be started
ListUntracked ==
    /\ col.pc = "untracked"
    /\ col' = IF git_out.ls = "nospawn"
              THEN [col EXCEPT !.pc = "done", !.result = "err", !.files = <<>>]
              ELSE [col EXCEPT !.pc = "done", !.result = "ok",
                               !.files = AppendUntracked(col.files, PathsOf(col.files),
                                             Append(git_out.listed, <<>>), git_out.fs)]
    /\ UNCHANGED <<progVars, git_out, tb, nr, cmds, rb, sw>>

NextGit == WorkDiff \/ IndexDiff \/ MergeDiffs \/ ListUntracked

InitGit ==
    /\ InitProgram /\ git_out \in GitOutputs /\ col = NewCall
    /\ tb = NoBuild /\ nr = NoRename /\ cmds = <<>> /\ rb = NoDetect /\ sw = NoSpawn

SpecGit == InitGit /\ [][NextGit]_vars

(* ------------------- build_tree and the flattening, step by step -------- *)
\* tree.rs lines 7-10: one iteration of the insertion loop
InsertFile ==
    /\ tb.pc = "insert" /\ tb.rest # <<>>
    /\ tb' = [tb EXCEPT !.root = insert_into_tree(@, Head(tb.rest).path, Head(tb.rest)),
                        !.rest = Tail(@)]
    /\ UNCHANGED <<progVars, gitVars, nr, cmds, rb, sw>>

\* tree.rs line 12
SortTree ==
    /\ tb.pc = "insert" /\ tb.rest = <<>>
    /\ tb' = [tb EXCEPT !.root = sort_tree(@), !.pc = "compact"]
    /\ UNCHANGED <<progVars, gitVars, nr, cmds, rb, sw>>

\* tree.rs lines 13-14
CompactTree ==
    /\ tb.pc = "compact"
    /\ tb' = [tb EXCEPT !.root = compact_tree(@), !.pc = "built"]
    /\ UNCHANGED <<progVars, gitVars, nr, cmds, rb, sw>>

\* app.rs lines 91-92 and 214-218: every directory expanded, then visible_items
CollectVisible ==
    /\ tb.pc = "built"
    /\ tb' = [tb EXCEPT !.visible = collect_visible(tb.root, <<>>, 0,
                                        expand_all_dirs(tb.root, <<>>)),
                        !.pc = "flat"]
    /\ UNCHANGED <<progVars, gitVars, nr, cmds, rb, sw>>

NextTree == InsertFile \/ SortTree \/ CompactTree \/ CollectVisible

InitTree ==
    /\ InitProgram /\ git_out = NoGitOut /\ col = NoCall /\ nr = NoRename /\ cmds = <<>> /\ rb = NoDetect /\ sw = NoSpawn
    /\ \E fs \in TreeChangeSets : tb = [NoBuild EXCEPT !.pc = "insert", !.files = fs, !.rest = fs]

SpecTree == InitTree /\ [][NextTree]_vars

(* ------------------ normalize_numstat_path on a path field -------------- *)
\* git prints the path field of the numstat line
PrintField ==
    /\ nr.pc = "print"
    /\ nr' = [nr EXCEPT !.field = RenameField(nr.old, nr.new), !.pc = "normalize"]
    /\ UNCHANGED <<progVars, gitVars, tb, cmds, rb, sw>>

\* git.rs line 394
NormalizeField ==
    /\ nr.pc = "normalize"
    /\ nr' = [nr EXCEPT !.out = normalize_numstat_path(nr.field), !.pc = "done"]
    /\ UNCHANGED <<progVars, gitVars, tb, cmds, rb, sw>>

NextRename == PrintField \/ NormalizeField

InitRename ==
    /\ InitProgram /\ git_out = NoGitOut /\ col = NoCall /\ tb = NoBuild /\ cmds = <<>> /\ rb = NoDetect /\ sw = NoSpawn
    /\ \E old \in NumstatPaths, new \in NumstatPaths :
           nr = [NoRename EXCEPT !.pc = "print", !.old = old, !.new = new]

SpecRename == InitRename /\ [][NextRename]_vars

(* ------------------ every place that starts a command ------------------ *)
Started(cmd) ==
    /\ Len(cmds) < MaxCmds
    /\ cmds' = Append(cmds, cmd)
    /\ UNCHANGED <<progVars, gitVars, tb, nr, rb, sw>>

\* get_merge_base, git.rs lines 34-36
RunMergeBase ==
    \E base \in RefNames : Started(WithArgs(git_cmd, <<"merge-base", "HEAD", base>>))

\* get_changed_files, git.rs lines 84-86
RunLsFiles ==
    Started(WithArgs(git_cmd, <<"ls-files", "-z", "--others", "--exclude-standard">>))

\* git_diff_status_and_stats, git.rs lines 314-322
RunDiffStats ==
    \E cached \in BOOLEAN, mb \in MergeBases :
        Started(WithArgs(git_cmd, <<"diff", "-z", "--raw", "--numstat">>
                                  \o (IF cached THEN <<"--cached">> ELSE <<>>) \o <<mb>>))

\* get_file_diff, git.rs lines 123-125 and 137-139
RunFileDiff ==
    \E cached \in BOOLEAN, mb \in MergeBases, path \in {"a/b/c.rs", "a/e.rs"} :
        Started(WithArgs(git_cmd, <<"diff">> \o (IF cached THEN <<"--cached">> ELSE <<>>)
                                  \o <<mb, "--", path>>))

\* git_git_path, git.rs lines 177-179
RunGitPath ==
    \E name \in CtlFiles : Started(WithArgs(git_cmd, <<"rev-parse", "--git-path", name>>))

\* git_rev_parse, git.rs lines 188-190
RunRevParse ==
    \E rev \in RevNames : Started(WithArgs(git_cmd, <<"rev-parse", rev>>))

\* git_status_hash, git.rs lines 199-201
RunStatus == Started(WithArgs(git_cmd, <<"status", "--porcelain=v1", "-z">>))

\* git_default_remote, git.rs line 223
RunRemote == Started(WithArgs(git_cmd, <<"remote">>))

\* resolve_base_ref, git.rs lines 247-249 and 258-260
RunVerify ==
    \E ref \in RefNames :
        Started(WithArgs(git_cmd, <<"rev-parse", "--verify", "--quiet", ref>>))

\* list_branches, git.rs lines 271-273
RunBranchList ==
    Started(WithArgs(git_cmd, <<"branch", "-a", "--format=%(refname:short)">>))

\* run_app, ui.rs line 114: the editor, not git
RunEditor == \E path \in {"a/b/c.rs", "a/e.rs"} : Started(editor_cmd(path))

NextCmd ==
    \/ RunMergeBase \/ RunLsFiles \/ RunDiffStats \/ RunFileDiff \/ RunGitPath
    \/ RunRevParse \/ RunStatus \/ RunRemote \/ RunVerify \/ RunBranchList
    \/ RunEditor

SpecCmd == Init /\ [][NextCmd]_vars

(* --------------- detect_base_branch and resolve_base_ref --------------- *)
\* resolve_base_ref starts on a name: line 244
ResolveEntry(name) == IF Len(name) = 1 THEN "remote" ELSE "local"

\* detect_base_branch, lines 17-23: the name given, or the first candidate
StartDetect ==
    /\ rb.pc = "start"
    /\ LET name == IF rb.given # NoName THEN rb.given ELSE Head(Candidates)
       IN  rb' = [rb EXCEPT !.cur = name,
                            !.todo = IF rb.given # NoName THEN <<>> ELSE Tail(Candidates),
                            !.pc = ResolveEntry(name)]
    /\ UNCHANGED <<progVars, gitVars, tb, nr, cmds, sw>>

\* resolve_base_ref, line 245
DefaultRemote ==
    /\ rb.pc = "remote"
    /\ LET remote == git_default_remote(rb.repo)
       IN  rb' = [rb EXCEPT !.remote = remote,
                            !.pc = IF remote # <<>> THEN "verify_remote" ELSE "local"]
    /\ UNCHANGED <<progVars, gitVars, tb, nr, cmds, sw>>

\* resolve_base_ref, lines 246-254
VerifyRemote ==
    /\ rb.pc = "verify_remote"
    /\ LET candidate == rb.remote \o rb.cur
       IN  rb' = IF candidate \in rb.repo.refs
                 THEN [rb EXCEPT !.result = [ok |-> TRUE, ref |-> candidate], !.pc = "done"]
                 ELSE [rb EXCEPT !.pc = "local"]
    /\ UNCHANGED <<progVars, gitVars, tb, nr, cmds, sw>>

\* resolve_base_ref, lines 258-267, and the loop of detect_base_branch,
\* lines 23-30
VerifyLocal ==
    /\ rb.pc = "local"
    /\ rb' = IF rb.cur \in rb.repo.refs
             THEN [rb EXCEPT !.result = [ok |-> TRUE, ref |-> rb.cur], !.pc = "done"]
             ELSE IF rb.todo # <<>>
             THEN [rb EXCEPT !.cur = Head(rb.todo), !.todo = Tail(rb.todo),
                             !.pc = ResolveEntry(Head(rb.todo))]
             ELSE [rb EXCEPT !.result = [ok |-> FALSE, ref |-> NoName], !.pc = "done"]
    /\ UNCHANGED <<progVars, gitVars, tb, nr, cmds, sw>>

NextBase == StartDetect \/ DefaultRemote \/ VerifyRemote \/ VerifyLocal

InitBase ==
    /\ InitProgram /\ git_out = NoGitOut /\ col = NoCall /\ tb = NoBuild
    /\ nr = NoRename /\ cmds = <<>> /\ sw = NoSpawn
    /\ \E repo \in Repos, given \in GivenNames :
           rb = [NoDetect EXCEPT !.pc = "start", !.repo = repo, !.given = given]

SpecBase == InitBase /\ [][NextBase]_vars

(* --------------- switch_base_branch and the watcher handle -------------- *)
\* switch_base_branch, app.rs lines 302-334: nothing changes when the
\* merge-base or the collection fails, else the base is replaced and the
\* watcher respawned
SwitchRespawn ==
    /\ sw.ws # <<>> /\ Len(sw.ws) < MaxSpawns
    /\ \E base \in SwitchBases, ok \in BOOLEAN :
           sw' = IF ok
                 THEN [sw EXCEPT !.base = base, !.ws = respawn_watcher(sw.ws, base),
                                 !.switched = TRUE]
                 ELSE sw
    /\ UNCHANGED <<progVars, gitVars, tb, nr, cmds, rb>>

\* watcher_loop, watcher.rs lines 165-177, of any thread spawned so far: the
\* update is queued if the Receiver of its channel lives, else the thread ends
WatcherSends ==
    /\ \E i \in DOMAIN sw.ws :
           /\ sw.ws[i].running
           /\ Len(sw.ws[i].queue) < MaxQueue
           /\ sw' = IF sw.ws[i].rx
                    THEN [sw EXCEPT !.ws[i].queue =
                                        Append(@, [from |-> i, base |-> sw.ws[i].base])]
                    ELSE [sw EXCEPT !.ws[i].running = FALSE]
    /\ UNCHANGED <<progVars, gitVars, tb, nr, cmds, rb>>

\* check_for_changes, app.rs lines 121-135: self.watcher.try_recv() reads the
\* channel of the handle the App holds, and the update is applied
DrainHandle ==
    /\ sw.ws # <<>>
    /\ LET h == Len(sw.ws) IN
       /\ sw.ws[h].queue # <<>>
       /\ sw' = [sw EXCEPT !.ws[h].queue = Tail(@),
                           !.applied = [from |-> Head(sw.ws[h].queue).from,
                                        base |-> Head(sw.ws[h].queue).base,
                                        handle |-> h, app_base |-> sw.base]]
    /\ UNCHANGED <<progVars, gitVars, tb, nr, cmds, rb>>

NextSpawn == SwitchRespawn \/ WatcherSends \/ DrainHandle

\* App::new, app.rs lines 82-95: the first watcher
InitSpawn ==
    /\ InitProgram /\ git_out = NoGitOut /\ col = NoCall /\ tb = NoBuild
    /\ nr = NoRename /\ cmds = <<>> /\ rb = NoDetect
    /\ sw = [NoSpawn EXCEPT !.base = "origin/main", !.ws = <<NewWatcher("origin/main")>>]

SpecSpawn == InitSpawn /\ [][NextSpawn]_vars

(* ------------------- the operations of the App, one by one -------------- *)
MaxVersion == 4

\* change lists an update can carry, among them a file replaced by a
\* directory of the same name
OpChangeSets ==
    ChangeSets \cup
    { << FileEntry(PathA, "Deleted", 0, 2), FileEntry(PathE, "Added", 1, 0) >>,
      << FileEntry(PathF, "Modified", 1, 1) >> }

OpUnchanged ==
    UNCHANGED <<fnVars, envVars, fails, wVars, chanVars, obs, envDirty, fgPc, cached_visible,
                last_tree_version, needs_redraw, had_events, iterLog, drainLog,
                msgsSent, evCount, switchLog>>

\* apply_file_changes, app.rs lines 137-208
OpApply ==
    /\ app.tree_version < MaxVersion
    /\ \E fs \in OpChangeSets, all \in BOOLEAN :
           app' = apply_file_changes(app, FilesChanged(fs, app.merge_base, all, {}))
    /\ OpUnchanged

\* keys 'j' and 'k' on an up-to-date visible list
OpMove ==
    /\ \E code \in {"j", "k"} :
           LET v == visible_items(app)
           IN  app' = handle_key(app, code, [i \in 1..Len(v) |-> CachedItem(v[i])])
    /\ app' # app
    /\ OpUnchanged

\* toggle_expand, app.rs lines 225-240
OpToggle ==
    /\ app.tree_version < MaxVersion
    /\ app' = toggle_expand(app)
    /\ app' # app
    /\ OpUnchanged

\* collapse_selected, app.rs lines 242-253
OpCollapse ==
    /\ app.tree_version < MaxVersion
    /\ app' = collapse_selected(app)
    /\ app' # app
    /\ OpUnchanged

\* switch_base_branch, app.rs lines 302-334, when it succeeds
OpSwitch ==
    /\ app.tree_version < MaxVersion
    /\ \E fs \in SwitchChangeSets, mb \in MergeBases :
           app' = switch_base_branch(app, "origin/develop", mb, fs)
    /\ OpUnchanged

NextOps == OpApply \/ OpMove \/ OpToggle \/ OpCollapse \/ OpSwitch

SpecOps == Init /\ [][NextOps]_vars

NextApp ==
    \/ HandleKey \/ Quit \/ EventsDone \/ CheckForChanges \/ RebuildVisible
    \/ Render \/ Wait \/ WatcherEmit
    \/ OpenBranchModal \/ CloseBranchModal \/ SwitchBaseBranch

SpecApp == Init /\ [][NextApp]_vars

Next ==
    \/ TouchCtl \/ TouchFile \/ MoveRef \/ ChangeStatus \/ ChangeFiles
    \/ WatcherStart \/ TickPoll \/ TickCollect
    \/ TryRecv \/ DropReceiver


(* ------------- the watcher thread and the foreground loop together ------ *)
\* git fetch: the remote-tracking ref file is rewritten, the base points to
\* another commit and the merge-base may move with it
Fetch ==
    \E o \in Oids, mb \in MergeBases :
        EnvStep(/\ baseOid # o /\ baseOid' = o
                /\ gitMB' = mb
                /\ mt' = [mt EXCEPT !["refs_remotes"] = @ + 1]
                /\ UNCHANGED <<fmt, headOid, statusHash, repoFiles, owed>>)

\* check_for_changes, app.rs lines 121-135: one turn of its loop takes the
\* oldest update off the channel and applies it
ApplyNext ==
    /\ rxAlive /\ chan # <<>>
    /\ app' = apply_file_changes(app, Head(chan))
    /\ chan' = Tail(chan)
    /\ UNCHANGED <<fnVars, envVars, fails, wVars, rxAlive, obs, envDirty, fgPc, cached_visible,
                   last_tree_version, needs_redraw, had_events, iterLog, drainLog,
                   msgsSent, evCount, switchLog>>

\* key 'j' on an up-to-date visible list: the cursor moves down
SelectNext ==
    /\ LET v == visible_items(app)
       IN  app' = handle_key(app, "j", [i \in 1..Len(v) |-> CachedItem(v[i])])
    /\ app' # app
    /\ UNCHANGED <<fnVars, envVars, fails, wVars, chanVars, obs, envDirty, fgPc, cached_visible,
                   last_tree_version, needs_redraw, had_events, iterLog, drainLog,
                   msgsSent, evCount, switchLog>>

\* ui.rs lines 176-186: the diff of the selected file is loaded on demand
LoadDiff ==
    /\ LET v == visible_items(app)
       IN  /\ app.cursor < Len(v) /\ ~IsDir(v[app.cursor + 1].node)
           /\ v[app.cursor + 1].path \notin Keys(app.highlighted_cache)
           /\ \E src \in DiffSources :
                  app' = ensure_highlighted(app, v[app.cursor + 1].path, src)
    /\ UNCHANGED <<fnVars, envVars, fails, wVars, chanVars, obs, envDirty, fgPc, cached_visible,
                   last_tree_version, needs_redraw, had_events, iterLog, drainLog,
                   msgsSent, evCount, switchLog>>

NextBoth ==
    \/ Fetch \/ TouchFile
    \/ WatcherStart \/ TickPoll \/ TickCollect
    \/ ApplyNext \/ SelectNext \/ LoadDiff

SpecBoth == Init /\ [][NextBoth]_vars

Spec == Init /\ [][Next]_vars

\* the watcher thread keeps running: the loop sleeps 200 ms and goes on
\* (watcher.rs:71-72), and no step of it blocks
SpecFair ==
    Spec /\ WF_vars(WatcherStart) /\ WF_vars(TickPoll) /\ WF_vars(TickCollect)

TypeOK ==
    /\ wPc \in {"start", "poll", "collect", "done"}
    /\ Len(chan) <= MaxEnv

(* ====================== properties of the watcher ====================== *)
\* the last poll tick has run to its end
TickEnded == obs.outcome \in {"quiet", "abandoned", "collectFailed", "sent", "sendFailed"}

\* some mtime tier fired in the last tick
TierFired == obs.idxCh \/ obs.refCh \/ obs.changed # {}

\* C1: in every tick that saw the index file's mtime differ from the recorded
\* one, the collection pipeline is run in that tick and any update the tick
\* emits has invalidate_all = TRUE.
C1_IndexChangeRunsCollection ==
    (TickEnded /\ obs.idxCh) =>
        /\ "collect" \in obs.tools
        /\ \A i \in 1..Len(obs.emitted) : obs.emitted[i].invalidate_all

\* C2: a tick in which exactly one file of the watcher's ChangeSet changed
\* mtime, no git control file changed mtime and the collection succeeded
\* emits exactly one update, with invalidate_all = FALSE and
\* invalidate_paths = {that file}.
C2_SingleFileChange ==
    \A p \in Paths :
        (/\ obs.outcome \in {"sent", "sendFailed"}
         /\ obs.changed = {p} /\ ~obs.idxCh /\ ~obs.refCh) =>
            /\ Len(obs.emitted) = 1
            /\ obs.emitted[1].invalidate_all = FALSE
            /\ obs.emitted[1].invalidate_paths = {p}
            /\ (obs.outcome = "sent" => obs.delivered = 1)

C2_Witness ==
    /\ obs.outcome = "sent" /\ obs.changed = {PathC} /\ ~obs.idxCh /\ ~obs.refCh
    /\ Len(obs.emitted) = 1 /\ Len(obs.emitted[1].files) = 2

\* C3: a tick that saw a ref file's mtime change and found the HEAD or base id
\* different from the last known one ends with one update that has
\* invalidate_all = TRUE and carries the merge-base of the new ids; a tick that
\* saw only ref files change and found both ids unchanged sets no
\* invalidate_all.
C3_IdChangeDelivered ==
    /\ (TickEnded /\ obs.outcome # "sendFailed" /\ obs.refCh /\ obs.idsDiffer) =>
            /\ Len(obs.emitted) = 1
            /\ obs.emitted[1].invalidate_all
            /\ obs.emitted[1].merge_base = obs.mbAtPoll
    /\ (TickEnded /\ obs.refCh /\ ~obs.idxCh /\ obs.resolved /\ ~obs.idsDiffer) =>
            \A i \in 1..Len(obs.emitted) : ~obs.emitted[i].invalidate_all

\* C4: a tick in which no control-file mtime and no tracked-file mtime differs
\* from the recorded values invokes no version-control subprocess, runs no
\* collection, emits nothing and keeps the watcher's private state; no tick
\* emits more than one update.
C4_QuietTick ==
    /\ (TickEnded /\ ~TierFired) =>
            /\ obs.outcome = "quiet"
            /\ obs.tools = {}
            /\ obs.emitted = <<>>
            /\ obs.stateKept
    /\ Len(obs.emitted) <= 1 /\ obs.delivered <= 1

\* a quiet tick although the status output has changed
C4_Witness ==
    /\ obs.outcome = "quiet" /\ ~TierFired /\ obs.hashDiffers /\ obs.envSince

\* C5: every tick in which an mtime tier fired computes the status fingerprint;
\* a mismatch makes the tick emit an update and replaces the stored
\* fingerprint; a tick in which no tier fired does not compute it.
C5_FingerprintOnAnyTier ==
    /\ (TickEnded /\ TierFired) => "status" \in obs.tools
    /\ (TickEnded /\ obs.outcome # "sendFailed" /\ TierFired /\ obs.hashDiffers
            /\ "status" \notin obs.failed) =>
            Len(obs.emitted) = 1
    /\ (TickEnded /\ ~TierFired) => "status" \notin obs.tools

\* C6: after a tick in which id re-resolution, merge-base or the collection
\* failed, the next tick retries the refresh although the repository has not
\* changed in between.
RetryOwed == obs.prevFailed \cap {"rev-parse HEAD", "rev-parse base", "merge-base", "collect"} # {}

C6_FailedAttemptRetried ==
    (TickEnded /\ RetryOwed /\ ~obs.envSince) => obs.outcome # "quiet"

\* C7: the watcher has left its loop exactly when its last send failed, a send
\* fails only when the receiver is gone, and the first failed send ends the
\* loop; tool failures never end it.
C7_ExitOnlyOnFailedSend ==
    /\ (wPc = "done") <=> (obs.outcome = "sendFailed")
    /\ (wPc = "done") => ~rxAlive
    /\ rxAlive => wPc # "done"

C7_Witness == wPc = "done" /\ fails > 0 /\ obs.outcome = "sendFailed"

(* =================== properties of the application ===================== *)
LastMsg == drainLog.msgs[Len(drainLog.msgs)]

CacheKeys(a) == Keys(a.diff_cache) \cup Keys(a.diff_source_cache) \cup Keys(a.highlighted_cache)

\* C8: a call of check_for_changes takes every update that is in the channel,
\* oldest first, and leaves the channel empty; with an empty channel it changes
\* nothing; afterwards the ChangeSet and the merge-base are those of the newest
\* update, and no cache entry survives that any of the drained updates
\* invalidated.
C8_DrainAppliesAllInOrder ==
    drainLog.valid =>
        /\ drainLog.remaining = 0
        /\ drainLog.msgs = <<>> => app = drainLog.before
        /\ drainLog.msgs # <<>> =>
               /\ app.files = LastMsg.files
               /\ app.merge_base = LastMsg.merge_base
        /\ \A p \in CacheKeys(app) :
               /\ p \in CacheKeys(drainLog.before)
               /\ \A i \in 1..Len(drainLog.msgs) :
                      /\ ~drainLog.msgs[i].invalidate_all
                      /\ p \notin drainLog.msgs[i].invalidate_paths

\* two updates drained at once: the older one invalidates a cached path, the
\* newer one carries another ChangeSet
C8_Witness ==
    /\ drainLog.valid /\ Len(drainLog.msgs) = 2
    /\ drainLog.msgs[1].files # drainLog.msgs[2].files
    /\ drainLog.msgs[1].merge_base # drainLog.msgs[2].merge_base
    /\ drainLog.msgs[1].invalidate_paths \cap CacheKeys(drainLog.before) # {}
    /\ ~drainLog.msgs[2].invalidate_all /\ drainLog.msgs[2].invalidate_paths = {}
    /\ app.files = drainLog.msgs[2].files

\* C9 as claimed: within an iteration nothing is done before the drain.
C9_DrainBeforeAnyOtherWork ==
    \A i \in 1..Len(iterLog) :
        iterLog[i] # "drain" => \E j \in 1..(i - 1) : iterLog[j] = "drain"

\* C9, amended: within an iteration the pending input events are handled
\* first, then every available message is drained, and only then the visible
\* list is rebuilt and the screen rendered; every iteration drains.
C9_DrainAfterInputBeforeRebuild ==
    /\ \A i \in 1..Len(iterLog) :
           /\ iterLog[i] = "input" => i = 1
           /\ iterLog[i] \in {"rebuild", "render"} =>
                  \E j \in 1..(i - 1) : iterLog[j] = "drain"
    /\ fgPc \in {"rebuild", "render", "wait"} =>
           \E j \in 1..Len(iterLog) : iterLog[j] = "drain"
    /\ drainLog.valid => drainLog.remaining = 0

C9_Witness ==
    /\ iterLog = <<"input", "drain", "rebuild", "render">>
    /\ app.tree_version > 1

\* the file entries at the leaves of a tree
RECURSIVE TreeFiles(_)
TreeFiles(nodes) ==
    UNION { IF IsDir(nodes[i]) THEN TreeFiles(nodes[i].children) ELSE {nodes[i].file}
            : i \in 1..Len(nodes) }

\* C10: applying one update replaces the ChangeSet and the merge-base by the
\* update's, rebuilds the tree from the new ChangeSet, and removes from each
\* cache every entry if invalidate_all is set, otherwise exactly the entries
\* whose path is in invalidate_paths or absent from the new ChangeSet; the
\* other entries keep their values.
C10_ApplyReplacesAndInvalidates ==
    (drainLog.valid /\ drainLog.msgs # <<>>) =>
        LET b == drainLog.beforeLast
            m == LastMsg
            Gone(cache) == IF m.invalidate_all THEN Keys(cache)
                           ELSE {p \in Keys(cache) :
                                    p \in m.invalidate_paths \/ p \notin PathsOf(m.files)}
            Kept(old, new) == /\ Keys(new) = Keys(old) \ Gone(old)
                              /\ \A p \in Keys(new) : new[p] = old[p]
        IN  /\ app.files = m.files
            /\ app.merge_base = m.merge_base
            /\ TreeFiles(app.tree) = {m.files[i] : i \in 1..Len(m.files)}
            /\ app.tree_version = b.tree_version + 1
            /\ Kept(b.diff_cache, app.diff_cache)
            /\ Kept(b.diff_source_cache, app.diff_source_cache)
            /\ Kept(b.highlighted_cache, app.highlighted_cache)

\* an update that removes one cached entry by path and keeps another
C10_Witness ==
    /\ drainLog.valid /\ drainLog.msgs # <<>>
    /\ ~LastMsg.invalidate_all
    /\ LastMsg.invalidate_paths \cap Keys(drainLog.beforeLast.diff_cache) # {}
    /\ Keys(app.diff_cache) # {}

\* C11: applying an update recomputes the ExpansionState from the directories
\* of the old and of the new tree: it keeps exactly the open directories that
\* persist, opens exactly the directories that are new, and holds nothing else;
\* so a persisting directory the user collapsed stays collapsed.
C11_ExpansionRecomputed ==
    (drainLog.valid /\ drainLog.msgs # <<>>) =>
        LET b == drainLog.beforeLast
            old_dirs == expand_all_dirs(b.tree, <<>>)
            new_dirs == expand_all_dirs(app.tree, <<>>)
        IN  /\ app.expanded = (b.expanded \cap new_dirs) \cup (new_dirs \ old_dirs)
            /\ \A d \in new_dirs :
                   /\ (d \in old_dirs /\ d \notin b.expanded) => d \notin app.expanded
                   /\ (d \in old_dirs /\ d \in b.expanded) => d \in app.expanded
                   /\ d \notin old_dirs => d \in app.expanded
            /\ app.expanded \subseteq new_dirs

\* a directory the user collapsed persists while a new directory appears
C11_Witness ==
    /\ drainLog.valid /\ drainLog.msgs # <<>>
    /\ LET b == drainLog.beforeLast
           old_dirs == expand_all_dirs(b.tree, <<>>)
           new_dirs == expand_all_dirs(app.tree, <<>>)
       IN  /\ \E d \in (old_dirs \cap new_dirs) \ b.expanded : d \notin app.expanded
           /\ \E d \in new_dirs \ old_dirs : d \in app.expanded

\* C12: after an update is applied, if the path selected before it occurs in
\* the new visible list the cursor is on an item with that path; otherwise the
\* cursor keeps its index if that is still in range and is the last index if
\* not; if the new visible list is empty, cursor, scroll_offset and
\* diff_scroll are 0.
C12_SelectionPreserved ==
    (drainLog.valid /\ drainLog.msgs # <<>>) =>
        LET b == drainLog.beforeLast
            old_selected == selected_path(b)
            v == visible_items(app)
            occurs == /\ old_selected # <<>>
                      /\ \E i \in 1..Len(v) : v[i].path = old_selected[1]
        IN  /\ occurs => /\ app.cursor < Len(v)
                         /\ v[app.cursor + 1].path = old_selected[1]
            /\ (~occurs /\ v # <<>>) =>
                   app.cursor = IF b.cursor < Len(v) THEN b.cursor ELSE Len(v) - 1
            /\ v = <<>> => app.cursor = 0 /\ app.scroll_offset = 0 /\ app.diff_scroll = 0

\* the selected file persists at another index of the new visible list
C12_Witness ==
    /\ drainLog.valid /\ drainLog.msgs # <<>>
    /\ LET old_selected == selected_path(drainLog.beforeLast)
           v == visible_items(app)
       IN  /\ old_selected # <<>>
           /\ app.cursor < Len(v)
           /\ v[app.cursor + 1].path = old_selected[1]
           /\ ~IsDir(v[app.cursor + 1].node)
           /\ app.cursor # drainLog.beforeLast.cursor

(* ======================= switching the base ========================== *)
\* the watcher handle the App holds: what it was spawned with, and its channel
WatcherHandle == <<w_base_branch, w_merge_base, w_files, spawns, rxAlive>>

\* C13: a switch_base_branch that got a merge-base and a ChangeSet leaves the
\* App with the new base, merge-base and ChangeSet, the tree built from that
\* ChangeSet, empty diff caches, every directory of the new tree open, cursor
\* and scroll positions 0, and a newly spawned watcher (empty channel) that was
\* given the new base, merge-base and file list.
C13_SwitchReplacesState ==
    (switchLog.valid /\ switchLog.outcome = "switched") =>
        /\ switchLog.resolved_ok =>
               switchLog.base \in {switchLog.branch, RemoteRef(switchLog.branch)}
        /\ app.base_branch = switchLog.base
        /\ app.merge_base = switchLog.merge_base
        /\ app.files = switchLog.files
        /\ TreeFiles(app.tree) = {app.files[i] : i \in 1..Len(app.files)}
        /\ CacheKeys(app) = {}
        /\ app.expanded = expand_all_dirs(app.tree, <<>>)
        /\ app.cursor = 0 /\ app.scroll_offset = 0 /\ app.diff_scroll = 0
        /\ spawns = switchLog.watcher_before[4] + 1
        /\ wPc = "start" /\ rxAlive /\ chan = <<>>
        /\ w_base_branch = app.base_branch
        /\ w_merge_base = app.merge_base
        /\ w_files = app.files

\* a switch that discards a cached diff, a moved cursor and a queued update
C13_Witness ==
    /\ switchLog.valid /\ switchLog.outcome = "switched" /\ switchLog.resolved_ok
    /\ CacheKeys(switchLog.before) # {}
    /\ switchLog.before.cursor > 0
    /\ switchLog.chan_before # <<>>
    /\ switchLog.before.files # app.files
    /\ switchLog.before.merge_base # app.merge_base

\* C14: a switch_base_branch in which the name could not be resolved, or the
\* merge-base or the collection failed, retains the prior state: App (but for
\* the closed modal), channel and watcher are as before.
C14_FailedSwitchKeepsState ==
    (switchLog.valid /\ (~switchLog.resolved_ok \/ switchLog.outcome # "switched")) =>
        /\ [app EXCEPT !.branch_modal = FALSE]
               = [switchLog.before EXCEPT !.branch_modal = FALSE]
        /\ chan = switchLog.chan_before
        /\ WatcherHandle = switchLog.watcher_before


(* ------------------ collecting the changed files (git.rs) --------------- *)
Collected == col.pc = "done" /\ col.result = "ok"

\* C15: the collected list is the working-tree entries in order, then the
\* index entries whose path the working-tree diff did not report, then the
\* listed untracked paths not reported by either diff; no path occurs twice,
\* and a path both diffs report keeps its working-tree entry.
C15_MergePriority ==
    Collected =>
        LET W == col.work_files
            I == col.index_files
            F == col.files
            IndexOnly(e) == \A k \in DOMAIN W : W[k].path # e.path
            fromIndex == SelectSeq(I, IndexOnly)
            Fresh(p) == (\A k \in DOMAIN W : W[k].path # p)
                        /\ (\A k \in DOMAIN I : I[k].path # p)
            fromListing == SelectSeq(git_out.listed, Fresh)
            n == Len(W) + Len(fromIndex)
        IN  /\ Len(F) = n + Len(fromListing)
            /\ \A k \in DOMAIN W : F[k] = W[k]
            /\ \A k \in DOMAIN fromIndex : F[Len(W) + k] = fromIndex[k]
            /\ \A k \in DOMAIN fromListing : F[n + k].path = fromListing[k]
            /\ \A i, j \in DOMAIN F : i # j => F[i].path # F[j].path
            /\ \A i \in DOMAIN W, j \in DOMAIN I, k \in DOMAIN F :
                   (W[i].path = I[j].path /\ F[k].path = W[i].path) => F[k] = W[i]

\* a collection where both diffs report one path differently, one listed path
\* was already reported and another one is appended
C15_Witness ==
    /\ Collected
    /\ \E i \in DOMAIN col.work_files, j \in DOMAIN col.index_files :
           /\ col.work_files[i].path = col.index_files[j].path
           /\ col.work_files[i] # col.index_files[j]
    /\ \E k \in DOMAIN git_out.listed : git_out.listed[k] \in PathsOf(col.work_files)
    /\ \E k \in DOMAIN git_out.listed :
           /\ git_out.listed[k] \notin PathsOf(col.work_files)
           /\ git_out.listed[k] \in PathsOf(col.files)


\* the working-tree diff has been parsed
WorkParsed == col.pc \notin {"idle", "work"} /\ git_out.work_ok

\* the classification of the status letters
StatusClass(letter) ==
    CASE letter = "A" -> "Added"
      [] letter = "M" -> "Modified"
      [] letter = "T" -> "Modified"
      [] letter = "D" -> "Deleted"
      [] letter = "R" -> "Renamed"
      [] letter = "C" -> "Added"
      [] OTHER -> "Unknown"

\* C16: every record of a diff output gives one entry with the status of its
\* letter (A Added, M or T Modified, D Deleted, R Renamed, C Added, anything
\* else Unknown); a rename or copy record gives exactly one entry, under its
\* new path, with the record's own add/delete counts, and its old path is no
\* entry's path (unless another record reports that path itself).
C16_RecordsClassified ==
    WorkParsed =>
        LET R == git_out.work
            E == col.work_files
        IN  /\ Len(E) = Len(R)
            /\ \A k \in DOMAIN R :
                   /\ E[k].path = R[k].path
                   /\ E[k].status = StatusClass(R[k].letter)
                   /\ R[k].letter \in {"R", "C"} =>
                          /\ E[k].additions = R[k].add
                          /\ E[k].deletions = R[k].del
                          /\ \A j \in DOMAIN E :
                                 E[j].path = R[k].old =>
                                     \E m \in DOMAIN R : R[m].path = R[k].old


\* the listed paths that neither diff reported
FreshListed ==
    { p \in { git_out.listed[k] : k \in DOMAIN git_out.listed } :
        /\ \A k \in DOMAIN col.work_files : col.work_files[k].path # p
        /\ \A k \in DOMAIN col.index_files : col.index_files[k].path # p }

\* C17: every listed untracked path not reported by a diff has one entry, with
\* status Added, no deletions and as additions the number of lines of the file
\* (a last line without newline counted), 0 for an empty, binary or unreadable
\* file; and the call fails only when one of the three queries failed, never
\* because a file could not be read.
C17_UntrackedEntries ==
    /\ Collected =>
           \A p \in FreshListed :
               LET hits == { k \in DOMAIN col.files : col.files[k].path = p }
                   read == git_out.fs[p]
               IN  /\ Cardinality(hits) = 1
                   /\ \A k \in hits :
                          /\ col.files[k].status = "Added"
                          /\ col.files[k].deletions = 0
                          /\ col.files[k].additions =
                                 IF ~read.ok \/ read.bytes = <<>> \/ read.binary
                                 THEN 0 ELSE read.lines
    /\ (col.pc = "done" /\ col.result = "err") =>
           (~git_out.work_ok \/ ~git_out.index_ok \/ git_out.ls # "ok")

\* a collection with an untracked text file whose last line has no newline and
\* an untracked file that is binary or cannot be read
C17_Witness ==
    /\ Collected
    /\ \E p \in FreshListed :
           /\ git_out.fs[p].ok /\ ~git_out.fs[p].binary /\ git_out.fs[p].bytes # <<>>
           /\ git_out.fs[p].bytes[Len(git_out.fs[p].bytes)][1] # "LF"
           /\ \E k \in DOMAIN col.files :
                  col.files[k].path = p /\ col.files[k].additions = 2
    /\ \E p \in FreshListed : ~git_out.fs[p].ok \/ git_out.fs[p].binary


\* C18: when the working-tree diff, the index diff or the untracked listing
\* fails (a non-zero exit included), the call ends with an error and returns
\* no list of files.
C18_QueryFailureFails ==
    (col.pc = "done" /\ (~git_out.work_ok \/ ~git_out.index_ok \/ git_out.ls # "ok")) =>
        (col.result = "err" /\ col.files = <<>>)


(* ------------------------ the tree of a change list --------------------- *)
Built == tb.pc \in {"built", "flat"}

\* one children list: directories before files, each group ascending by name
OrderedList(nodes) ==
    \A i, j \in DOMAIN nodes :
        i < j => /\ ~(~IsDir(nodes[i]) /\ IsDir(nodes[j]))
                 /\ IsDir(nodes[i]) = IsDir(nodes[j]) =>
                        ~NameLess(NodeName(nodes[j]), NodeName(nodes[i]))

RECURSIVE OrderedTree(_)
OrderedTree(nodes) ==
    /\ OrderedList(nodes)
    /\ \A i \in DOMAIN nodes : IsDir(nodes[i]) => OrderedTree(nodes[i].children)

\* C19: in the tree build_tree returns, every children list (the root list
\* too) has its directories before its files and, within each group, the nodes
\* in ascending order of name: the final, possibly compacted, name of a
\* directory and the last path segment of a file.
C19_TreeOrdered == Built => OrderedTree(tb.root)

\* the file entries of the flattened list, in order
FilesOf(visible) ==
    LET IsFile(item) == ~IsDir(item.node)
        items == SelectSeq(visible, IsFile)
    IN  [k \in DOMAIN items |-> items[k].node.file]

\* C20: flattening the built tree with every directory expanded gives each
\* file of the change list exactly once, and no other file.
C20_FlattenGivesFiles ==
    tb.pc = "flat" =>
        LET got == FilesOf(tb.visible)
        IN  /\ \A i, j \in DOMAIN got : i # j => got[i].path # got[j].path
            /\ PathsOf(got) = PathsOf(tb.files)
            /\ \A f \in {tb.files[k] : k \in DOMAIN tb.files} :
                   Cardinality({k \in DOMAIN got : got[k] = f}) = 1

\* a flattened tree with a compacted directory, a file below a branching
\* directory and a file at the root
C20_Witness ==
    /\ tb.pc = "flat"
    /\ Len(tb.files) = MaxFiles
    /\ \E k \in DOMAIN tb.visible :
           IsDir(tb.visible[k].node) /\ Len(tb.visible[k].node.name) > 1
    /\ \E k \in DOMAIN tb.visible :
           ~IsDir(tb.visible[k].node) /\ tb.visible[k].depth = 0
    /\ \E k \in DOMAIN tb.visible :
           ~IsDir(tb.visible[k].node) /\ tb.visible[k].depth > 0


\* the directories of a tree: the path from the root, the name, the number of
\* children and the node of each
RECURSIVE DirsOf(_, _)
DirsOf(nodes, prefix) ==
    UNION { IF IsDir(nodes[i])
            THEN {[path |-> prefix \o nodes[i].name, name |-> nodes[i].name,
                   n |-> Len(nodes[i].children), node |-> nodes[i]]}
                 \cup DirsOf(nodes[i].children, prefix \o nodes[i].name)
            ELSE {} : i \in DOMAIN nodes }

\* the tree of the files before compaction
Uncompacted == sort_tree(InsertAll(<<>>, tb.files))

\* C21: a directory with two or more children in the uncompacted tree is, at
\* any depth, a directory of the built tree under its own one-segment name
\* (merged neither into its parent's name nor with a child), at the same path
\* and with the same number of children.
C21_BranchPointsKept ==
    Built =>
        \A u \in DirsOf(Uncompacted, <<>>) :
            u.n >= 2 => \E o \in DirsOf(tb.root, <<>>) :
                            o.path = u.path /\ o.name = u.name /\ o.n = u.n

\* a built tree where a branching directory lies below a chain of two
\* directories with one child each
C21_Witness ==
    /\ Built
    /\ \E u \in DirsOf(Uncompacted, <<>>), v \in DirsOf(Uncompacted, <<>>),
          w \in DirsOf(Uncompacted, <<>>) :
           /\ u.n = 1 /\ v.n = 1 /\ w.n >= 2
           /\ Len(u.path) = 1 /\ Len(v.path) = 2 /\ Len(w.path) = 3
           /\ SubSeq(w.path, 1, 2) = v.path /\ SubSeq(v.path, 1, 1) = u.path


\* a directory that has one child
OneChild(d) == d.n = 1

\* the last directory of a pure chain: it has one child, which is a file or a
\* directory that does not have exactly one child
ChainEnd(d) ==
    /\ OneChild(d)
    /\ IsDir(d.node.children[1]) => Len(d.node.children[1].children) # 1

\* the number of directories of the pure chain that ends at d: d and the
\* directories above it, as long as each has one child
ChainLen(d, dirs) ==
    LET up(k) == { a \in dirs : a.path = SubSeq(d.path, 1, Len(d.path) - k) }
        pure == { L \in 1..Len(d.path) :
                    \A k \in 1..(L - 1) : \E a \in up(k) : OneChild(a) }
    IN  CHOOSE L \in pure : \A M \in pure : M <= L

\* C22: every pure chain of the uncompacted tree (directories with exactly
\* one child each, one below the other, down to a last one whose child is a
\* file or a directory with a different number of children) is one directory
\* of the built tree, named by the chain's names from the first to the last
\* and holding the children of the last directory of the chain.
C22_ChainsCollapsed ==
    Built =>
        LET U == DirsOf(Uncompacted, <<>>)
        IN  \A d \in U :
                ChainEnd(d) =>
                    LET L == ChainLen(d, U)
                        name == SubSeq(d.path, Len(d.path) - L + 1, Len(d.path))
                    IN  \E o \in DirsOf(tb.root, <<>>) :
                            /\ o.path = d.path /\ o.name = name /\ o.n = 1
                            /\ IsDir(o.node.children[1]) = IsDir(d.node.children[1])
                            /\ IF IsDir(d.node.children[1])
                               THEN o.node.children[1].name = d.node.children[1].name
                               ELSE o.node.children[1] = d.node.children[1]

\* a built tree with a chain of three directories that holds one file
C22_Witness ==
    /\ Built
    /\ \E d \in DirsOf(Uncompacted, <<>>) :
           /\ ChainEnd(d) /\ ChainLen(d, DirsOf(Uncompacted, <<>>)) = 3
           /\ ~IsDir(d.node.children[1])


\* the tree of [a/b/c.rs (Modified, +3/-1), a/b/d.rs (Added, +10/-0)] is built
BuiltExample == Built /\ tb.files = InitialChangeSet

\* C23 as stated: the tree of [a/b/c.rs, a/b/d.rs] is the single directory
\* "a/b" holding the files c.rs and d.rs, in that order.
C23_ExampleMergedIntoOne ==
    BuiltExample =>
        tb.root = << Directory(<<"a", "b">>, << File(InitialChangeSet[1]),
                                                 File(InitialChangeSet[2]) >>) >>

\* C23, amended: the tree of [a/b/c.rs, a/b/d.rs] is the single directory "a"
\* holding only the directory "b", which holds the files c.rs and d.rs, in
\* that order: b has two children, so a is not merged with it.
C23_ExampleKeepsBranchPoint ==
    BuiltExample =>
        tb.root = << Directory(<<"a">>,
                        << Directory(<<"b">>, << File(InitialChangeSet[1]),
                                                  File(InitialChangeSet[2]) >>) >>) >>

C23_Witness == BuiltExample /\ Len(tb.root) = 1 /\ IsDir(tb.root[1])


\* C24: in the flattened list (every directory expanded) a directory's path
\* is the chain of names from the root, a file's path is its path in the
\* change list, and no two items have the same path.
C24_PathsUnambiguous ==
    tb.pc = "flat" =>
        /\ \A k \in DOMAIN tb.visible :
               IF IsDir(tb.visible[k].node)
               THEN \E d \in DirsOf(tb.root, <<>>) :
                        d.node = tb.visible[k].node /\ d.path = tb.visible[k].path
               ELSE tb.visible[k].path = tb.visible[k].node.file.path
        /\ \A i, j \in DOMAIN tb.visible :
               i # j => tb.visible[i].path # tb.visible[j].path


(* --------------------- the path field of a numstat line ----------------- *)
\* C25: normalize_numstat_path gives the new path for every field that
\* encodes a rename, with braces (prefix{old => new}suffix) or without
\* (old => new), and gives back unchanged a field that encodes none.
C25_NormalizeGivesNewPath ==
    nr.pc = "done" => nr.out = JoinPath(nr.new)


(* ------------------------- rebuilding the tree -------------------------- *)
\* the last update of the drain brought the change list the App already had
SameFilesAgain ==
    /\ drainLog.valid /\ drainLog.msgs # <<>>
    /\ LastMsg.files = drainLog.beforeLast.files

ReadOnlyQuery(args) ==
    /\ args # <<>>
    /\ args[1] \in {"merge-base", "ls-files", "diff", "rev-parse", "status",
                    "remote", "branch"}
    /\ args[1] = "branch" => (Len(args) >= 2 /\ args[2] = "-a")
    /\ args[1] = "remote" => Len(args) = 1

\* C27: every command that runs git has GIT_OPTIONAL_LOCKS=0 in its
\* environment and is a query that only reads the repository.
C27_GitRunsWithoutLocks ==
    \A k \in DOMAIN cmds :
        cmds[k].program = "git" =>
            /\ <<"GIT_OPTIONAL_LOCKS", "0">> \in cmds[k].env
            /\ ReadOnlyQuery(cmds[k].args)

\* a status query and a per-file diff have been started
C27_Witness ==
    /\ \E k \in DOMAIN cmds : cmds[k].program = "git" /\ cmds[k].args[1] = "status"
    /\ \E k \in DOMAIN cmds : cmds[k].program = "git" /\ cmds[k].args[1] = "diff"


(* --------------------------- finding the base --------------------------- *)
\* the remote-tracking refs of a name that resolve
RemoteTracking(name) ==
    { <<r>> \o name : r \in rb.repo.remotes } \cap rb.repo.refs

\* C28: for a given name, when a remote-tracking ref of the name and the
\* local branch of the name both resolve the result is the remote-tracking
\* ref; the name itself is the result only if no remote-tracking ref
\* resolves; the result is an error if neither resolves.
C28_RemoteRefPreferred ==
    (rb.pc = "done" /\ rb.given # NoName) =>
        /\ (RemoteTracking(rb.given) # {} /\ rb.given \in rb.repo.refs) =>
               (rb.result.ok /\ rb.result.ref \in RemoteTracking(rb.given))
        /\ (rb.result.ok /\ rb.result.ref = rb.given) => RemoteTracking(rb.given) = {}
        /\ (RemoteTracking(rb.given) = {} /\ rb.given \notin rb.repo.refs) => ~rb.result.ok

\* what resolve_base_ref gives for a name: the ref of the default remote if
\* it resolves, else the name if it resolves
ResolutionOf(name) ==
    LET remote == git_default_remote(rb.repo)
    IN  IF Len(name) = 1 /\ remote # <<>> /\ (remote \o name) \in rb.repo.refs
        THEN <<remote \o name>>
        ELSE IF name \in rb.repo.refs THEN <<name>> ELSE <<>>

C30_SavedFileReported ==
    \A p \in Paths : (p \in owed) ~> (p \notin owed)


(* -------------------------- the caches of the App ----------------------- *)

\* C31: in every reachable state of the App every key of the diff cache, of
\* the provenance cache and of the highlighted cache is the path of an
\* entry of the current change list.
C31_CacheKeysAreCurrentFiles ==
    CacheKeys(app) \subseteq PathsOf(app.files)

\* a drained update has removed a file whose diff was cached, and another
\* cached diff survived it
C31_Witness ==
    /\ drainLog.valid /\ drainLog.msgs # <<>>
    /\ CacheKeys(drainLog.before) \ PathsOf(app.files) # {}
    /\ CacheKeys(app) # {}


(* ----------------------- paths and counts of a diff --------------------- *)
\* C32: every record of the combined raw+numstat output gives an entry with
\* the path exactly as reported and the add/delete counts of that path's own
\* numstat record (0/0 for a binary record), whatever characters the path
\* contains.
C32_PathAndCountsKept ==
    WorkParsed =>
        LET R == git_out.work
            E == col.work_files
        IN  /\ Len(E) = Len(R)
            /\ \A k \in DOMAIN R :
                   /\ E[k].path = R[k].path
                   /\ E[k].additions = (IF R[k].binary THEN 0 ELSE R[k].add)
                   /\ E[k].deletions = (IF R[k].binary THEN 0 ELSE R[k].del)


(* --------------------- cached diffs and the merge-base ------------------ *)
\* C33: in every reachable state of the App every cached diff was computed
\* against the App's current merge-base: an applied update that changes the
\* merge-base discards all cached diffs, also when the tick that saw the
\* ids change failed to collect.
C33_CachedDiffsAgainstMergeBase ==
    \A p \in Keys(app.diff_cache) : app.diff_cache[p].against = app.merge_base


(* ---------------------- updates after a base switch --------------------- *)
\* C34: after a successful switch_base_branch no update of an earlier
\* watcher is applied, whether it was queued before the switch or sent
\* after it: every applied update comes from the watcher spawned last and
\* was made for the base the App then has.
C34_NoUpdateOfOldWatcherApplied ==
    sw.applied # NoApplied =>
        /\ sw.applied.from = sw.applied.handle
        /\ sw.applied.base = sw.applied.app_base
        /\ \A i \in DOMAIN sw.ws : i < Len(sw.ws) => sw.ws[i].queue = <<>>

\* after a switch to another base, made while an update of the old watcher
\* was queued, an update has been applied and the old thread has found its
\* channel closed
C34_Witness ==
    /\ sw.switched /\ Len(sw.ws) >= 2
    /\ sw.applied.handle = Len(sw.ws)
    /\ sw.ws[1].base # sw.base
    /\ ~sw.ws[1].running


(* ------------------ changes made before the baseline -------------------- *)
\* the mtimes at the time the change list given to the watcher was collected
CollectedMt == [f \in CtlFiles |-> IF f \in {"index", "HEAD"} THEN 1 ELSE 0]

\* the watcher has not yet recorded its baseline, and the index file, a ref
\* file or a tracked file was rewritten since the collection
ChangedBeforeBaseline ==
    /\ wPc = "start"
    /\ \/ mt # CollectedMt
       \/ \E p \in PathsOf(w_files) : fmt[p] # 1

\* C35: a change of the index file, of a ref file or of a tracked file made
\* after the change list passed to the watcher was collected, even before
\* the watcher has recorded its baseline, is eventually followed by an
\* emitted update.
C35_EarlyChangeReported ==
    ChangedBeforeBaseline ~> (obs.emitted # <<>>)


(* --------------------- what an emitted update invalidates --------------- *)
\* the update the last tick emitted invalidates nothing
EmittedWithoutReason ==
    /\ obs.emitted # <<>>
    /\ ~obs.emitted[1].invalidate_all
    /\ obs.emitted[1].invalidate_paths = {}

\* C36 (as stated): every emitted update has invalidate_all = true or a
\* non-empty invalidate_paths.
C36_UpdateCarriesReason == ~EmittedWithoutReason

\* C36 (amended): an emitted update has invalidate_all = true or a non-empty
\* invalidate_paths, except when its tick saw a ref file's mtime change,
\* found the ids unchanged and the status fingerprint different: that
\* update invalidates nothing.
C36_ReasonOrFingerprintOnly ==
    EmittedWithoutReason =>
        /\ obs.refCh /\ ~obs.idxCh /\ ~obs.idsDiffer /\ obs.changed = {}
        /\ obs.hashDiffers
        /\ "status" \in obs.tools \ obs.failed

\* such an update has been emitted and delivered
C36_Witness ==
    /\ EmittedWithoutReason
    /\ obs.outcome = "sent"
    /\ obs.tools = {"rev-parse HEAD", "rev-parse base", "status", "collect"}


(* ------------------------- the expansion set ---------------------------- *)
\* C37: in every reachable state of the App the expansion set is a subset
\* of the directory paths of the current tree.
C37_ExpandedAreDirectories ==
    app.expanded \subseteq expand_all_dirs(app.tree, <<>>)

\* a drained update has removed a directory that was expanded, while a
\* directory of the new tree is collapsed
C37_Witness ==
    /\ drainLog.valid /\ drainLog.msgs # <<>>
    /\ drainLog.before.expanded \ expand_all_dirs(app.tree, <<>>) # {}
    /\ expand_all_dirs(app.tree, <<>>) \ app.expanded # {}


(* ------------------------------ the cursor ------------------------------ *)
ValidCursor(a) ==
    LET n == Len(visible_items(a))
    IN  IF n = 0 THEN a.cursor = 0 ELSE a.cursor < n

\* C38: after every operation of the App (apply_file_changes, toggle_expand,
\* collapse_selected, switch_base_branch) that starts from a valid cursor,
\* the cursor is an index of the current visible list, or the list is empty
\* and the cursor is 0.
C38_CursorValid == ValidCursor(app)


(* ------------------------ compaction is a fixpoint ---------------------- *)
\* the files of a tree, in the order of a walk from the root
RECURSIVE Leaves(_)
Leaves(nodes) ==
    IF nodes = <<>> THEN <<>>
    ELSE (IF IsDir(nodes[1]) THEN Leaves(nodes[1].children) ELSE <<nodes[1].file>>)
         \o Leaves(Tail(nodes))

\* a directory compact_tree would merge with its child
Mergeable(d) ==
    /\ d.n = 1
    /\ IsDir(d.node.children[1])
    /\ Len(d.node.children[1].children) = 1

\* C39: in the result of compact_tree no directory has exactly one child
\* that is a directory with exactly one child, the files are those of the
\* uncompacted tree in the same order, and compact_tree applied to the
\* result gives the result again.
C39_CompactIsFixpoint ==
    Built =>
        /\ \A d \in DirsOf(tb.root, <<>>) : ~Mergeable(d)
        /\ Leaves(tb.root) = Leaves(Uncompacted)
        /\ compact_tree(tb.root) = tb.root

\* the compaction has merged a chain that lies below a directory with
\* several children
C39_Witness ==
    /\ Built
    /\ \E u \in DirsOf(Uncompacted, <<>>) : Mergeable(u) /\ Len(u.path) >= 2
    /\ \E d \in DirsOf(tb.root, <<>>) : d.n >= 2
    /\ \E d \in DirsOf(tb.root, <<>>) : Len(d.name) >= 2 /\ Len(d.path) > Len(d.name)

=============================================================================
